---- MODULE Spec2Model ----
(***************************************************************************)
(* rdsys backend: the consistent-hash resource ring (pkg/core hashring),   *)
(* the partitioned hashring with distributors, the backend resources with  *)
(* their subscriber registry, the resource-stream handler, the resource    *)
(* test pool, the gates of the kraken, the block and allow lists and the   *)
(* identifiers of bridges, transports and links.                           *)
(*                                                                         *)
(* RingSpec and UpdateSpec drive one Hashring through its operations.      *)
(* PlacementSpec posts resources and restarts the backend from its store.  *)
(* DeliverySpec posts and prunes resources while a distributor subscribes. *)
(* StreamSpec runs the stream handlers against clients that stall and go.  *)
(* PartitionSpec adds resources with declared distributors; RequestSpec    *)
(* and UnpartitionedSpec vary the subscribers' requests and post links.    *)
(* PoolSpec runs the resource test pool, OnbascaSpec its bandwidth         *)
(* responses; StencilSpec builds stencils, IdentitySpec compares UIDs and  *)
(* OIDs. GateSpec recomputes the gates over tested resources, LookupSpec   *)
(* reads many resources off a ring, BlocklistSpec asks the block and       *)
(* allow lists for the countries of a bridge.  RetestSpec writes test       *)
(* results into a ring that is being ingested.  ConcurrentSpec, RaceSpec   *)
(* and SeedSpec run BackendResources.Add in several goroutines, by its     *)
(* locks, its relations table and its random source.  AuthSpec answers     *)
(* authenticated requests and KrakenSpec runs the cycles of the ingestion  *)
(* loop over its input files.                                              *)
(***************************************************************************)
EXTENDS Integers, Sequences, FiniteSets, TLC

\* ---------------------------------------------------------------- bounds
MaxUid == 3
MaxTime == 2
MaxUpdUid == 2
MaxBUid == 2
MaxConn == 2
MaxOut == 2
MaxElapse == 1
MaxBatch == 2
MaxRatio == 2
MaxWeight == 2
MaxFp == 2
MaxAddr == 3
MaxThread == 2

\* ------------------------------------------------------ program constants
StateUntested == 0
StateFunctional == 1
StateDysfunctional == 2

SpeedUntested == 0
SpeedAccepted == 1
SpeedRejected == 2

ResourceUnchanged == 0
ResourceIsNew == 1
ResourceChanged == 2
ResourceIsGone == 3

\* ------------------------------------------------------------- resources
UIDs == 1..MaxUid

Vers == {0, 1}

\* A Dummy resource object.  The OID determines the UID (uid = oid \div 10).
\* Dummy.Expiry is in ticks: one tick for an odd UID, none for the others.
Resource(uid, ver, rels, dist, state, speed) ==
    [uid |-> uid, oid |-> uid * 10 + ver, rels |-> rels, dist |-> dist,
     state |-> state, speed |-> speed, lastTested |-> 0, lastPassed |-> 0,
     expiry |-> uid % 2]

\* The test results a resource may carry when it is handed to the ring.
TestResults ==
    { <<StateUntested, SpeedUntested>>, <<StateFunctional, SpeedAccepted>>,
      <<StateDysfunctional, SpeedUntested>>, <<StateFunctional, SpeedRejected>> }

NoResource == [uid |-> 0]

\* The resources handed to the hashring of RingSpec: fresh from ingestion,
\* not yet tested.
RingInputs ==
    { Resource(u, v, <<>>, "", StateUntested, SpeedUntested) : u \in UIDs, v \in Vers }

UpdateInputs ==
    { Resource(u, v, <<>>, "", ts[1], ts[2]) :
        u \in (1..MaxUpdUid), v \in Vers, ts \in TestResults }

NewDiff(full, new, changed, gone) ==
    [full |-> full, new |-> new, changed |-> changed, gone |-> gone]

Fresh(u, v) == Resource(u, v, <<>>, "", StateUntested, SpeedUntested)

\* The diffs applied to the hashring of RingSpec.
RingDiffs ==
    { NewDiff(f, n, c, g) :
        f \in BOOLEAN,
        n \in { <<>>, <<Fresh(1, 0)>>, <<Fresh(MaxUid, 0), Fresh(2, 0)>> },
        c \in { <<>>, <<Fresh(2, 1)>> },
        g \in { <<>>, <<Fresh(1, 0)>> } }

\* --------------------------------------------------------------- hashring
NewHashnode(k, r, t) == [hashkey |-> k, elem |-> r, lastUpdate |-> t]

\* sort.Search over the closed-open index range [i, j) of the nodes, with
\* the predicate hashkey >= k (indexes are Go's, 0-based).
RECURSIVE Search(_, _, _, _)
Search(nodes, k, i, j) ==
    IF i < j
    THEN LET h == (i + j) \div 2
         IN IF ~(nodes[h + 1].hashkey >= k)
            THEN Search(nodes, k, h + 1, j)
            ELSE Search(nodes, k, i, h)
    ELSE i

getIndex(nodes, k) ==
    IF Len(nodes) = 0
    THEN [i |-> -1, ok |-> FALSE]
    ELSE LET s == Search(nodes, k, 0, Len(nodes))
             i == IF s >= Len(nodes) THEN 0 ELSE s
         IN [i |-> i, ok |-> (i < Len(nodes) /\ nodes[i + 1].hashkey = k)]

\* A ring that appends without sorting.
SortNodesOmitted(nodes) == nodes

\* sort.Sort by Hashring.Less
RECURSIVE InsertNode(_, _)
InsertNode(sorted, n) ==
    IF sorted = <<>> THEN <<n>>
    ELSE IF n.hashkey < Head(sorted).hashkey THEN <<n>> \o sorted
    ELSE <<Head(sorted)>> \o InsertNode(Tail(sorted), n)

RECURSIVE SortNodes(_)
SortNodes(nodes) ==
    IF nodes = <<>> THEN <<>>
    ELSE InsertNode(SortNodes(SubSeq(nodes, 1, Len(nodes) - 1)), nodes[Len(nodes)])

\* A maybeTestResource that takes the stored resource for the given one
\* whatever its OID.
maybeTestResourceAnyOid(nodes, r, t) ==
    LET g == getIndex(nodes, r.uid)
    IN IF g.ok
       THEN LET oldR == nodes[g.i + 1].elem
            IN IF /\ t - oldR.lastTested < oldR.expiry
                  /\ oldR.state = StateFunctional
                  /\ oldR.speed = SpeedAccepted
               THEN NoResource
               ELSE oldR
       ELSE r

\* Hashring.maybeTestResource: the resource whose Test() is started, or
\* NoResource when the stored one is passing and was tested recently.
maybeTestResource(nodes, r, t) ==
    LET g == getIndex(nodes, r.uid)
    IN IF g.ok /\ nodes[g.i + 1].elem.oid = r.oid
       THEN LET oldR == nodes[g.i + 1].elem
            IN IF /\ oldR.state # StateUntested
                  /\ oldR.speed # SpeedUntested
                  /\ t - oldR.lastTested < oldR.expiry
                  /\ oldR.state = StateFunctional
                  /\ oldR.speed = SpeedAccepted
               THEN NoResource
               ELSE oldR
       ELSE r

\* An Add that stores the resource it is given over the one it finds.
HashringAddOverwrites(nodes, r, t) ==
    LET g == getIndex(nodes, r.uid)
    IN IF g.ok
       THEN [nodes |-> [nodes EXCEPT ![g.i + 1] = NewHashnode(r.uid, r, t)],
             err |-> TRUE, tested |-> NoResource]
       ELSE [nodes |-> SortNodes(Append(nodes, NewHashnode(r.uid, r, t))),
             err |-> FALSE, tested |-> maybeTestResource(nodes, r, t)]

\* Hashring.Add
HashringAdd(nodes, r, t) ==
    LET g == getIndex(nodes, r.uid)
    IN IF g.ok
       THEN [nodes |-> [nodes EXCEPT ![g.i + 1].lastUpdate = t],
             err |-> TRUE, tested |-> NoResource]
       ELSE [nodes |-> SortNodes(Append(nodes, NewHashnode(r.uid, r, t))),
             err |-> FALSE, tested |-> maybeTestResource(nodes, r, t)]

\* A failing test that looks at the reachability state alone.
IsFailingStateOnly(e) == e.state = StateDysfunctional

\* The test in AddOrUpdate that marks a resource that is failing tests as gone
IsFailing(e) == e.state = StateDysfunctional \/ e.speed = SpeedRejected

IsPassing(e) == e.state = StateFunctional /\ e.speed = SpeedAccepted

\* An AddOrUpdate that refreshes the timestamp but keeps the stored element
\* when the OID changed.
HashringAddOrUpdateKeepsOld(nodes, r, t) ==
    LET g == getIndex(nodes, r.uid)
    IN IF g.ok
       THEN LET old == nodes[g.i + 1].elem
            IN [nodes |-> [nodes EXCEPT ![g.i + 1].lastUpdate = t],
                event |-> IF IsFailing(old) THEN ResourceIsGone
                          ELSE IF old.oid # r.oid THEN ResourceChanged
                          ELSE ResourceUnchanged,
                tested |-> maybeTestResource(nodes, r, t)]
       ELSE [nodes |-> SortNodes(Append(nodes, NewHashnode(r.uid, r, t))),
             event |-> ResourceIsNew,
             tested |-> maybeTestResource(nodes, r, t)]

\* Hashring.AddOrUpdate
HashringAddOrUpdate(nodes, r, t) ==
    LET g == getIndex(nodes, r.uid)
        tested == maybeTestResource(nodes, r, t)
    IN IF g.ok
       THEN LET old == nodes[g.i + 1].elem
                changed == old.oid # r.oid
                stored == IF changed THEN r ELSE old
                \* r.SetLastPassed acts on the argument, which is the stored
                \* object only when it replaced the old one
                elem == IF changed /\ ~IsFailing(stored) /\ IsPassing(stored)
                        THEN [stored EXCEPT !.lastPassed = t]
                        ELSE stored
            IN [nodes |-> [nodes EXCEPT ![g.i + 1] =
                               [hashkey |-> @.hashkey, elem |-> elem, lastUpdate |-> t]],
                event |-> IF IsFailing(stored) THEN ResourceIsGone
                          ELSE IF changed THEN ResourceChanged
                          ELSE ResourceUnchanged,
                tested |-> tested]
       ELSE [nodes |-> SortNodes(Append(nodes, NewHashnode(r.uid, r, t))),
             event |-> ResourceIsNew,
             tested |-> tested]

\* Hashring.remove on the backing array arr of which the first len slots are
\* the ring: append(leftPart, rightPart...) shifts the tail left in place and
\* leaves the slots from the new length on as they were.
removeInPlace(arr, len, uid) ==
    LET g == getIndex(SubSeq(arr, 1, len), uid)
    IN IF ~g.ok
       THEN [arr |-> arr, len |-> len, err |-> TRUE]
       ELSE [arr |-> [k \in 1..Len(arr) |->
                         IF k >= g.i + 1 /\ k < len THEN arr[k + 1] ELSE arr[k]],
             len |-> len - 1, err |-> FALSE]

\* Hashring.Remove
HashringRemove(nodes, r) ==
    LET x == removeInPlace(nodes, Len(nodes), r.uid)
    IN [nodes |-> SubSeq(x.arr, 1, x.len), err |-> x.err]

Expired(node, t) == t - node.lastUpdate > node.elem.expiry

\* Hashring.Prune: the range loop walks the slots of the slice as it was
\* when the loop began (i counts those slots), while remove() shifts the
\* same backing array under it.
RECURSIVE PruneLoop(_, _, _, _, _)
PruneLoop(arr, len, i, pruned, t) ==
    IF i >= Len(arr)
    THEN [nodes |-> SubSeq(arr, 1, len), pruned |-> pruned]
    ELSE LET node == arr[i + 1]
         IN IF Expired(node, t)
            THEN LET x == removeInPlace(arr, len, node.elem.uid)
                 IN PruneLoop(x.arr, x.len, i + 1, Append(pruned, node.elem), t)
            ELSE PruneLoop(arr, len, i + 1, pruned, t)

HashringPrune(nodes, t) == PruneLoop(nodes, Len(nodes), 0, <<>>, t)

\* Hashring.GetAll
GetAll(nodes) == [i \in 1..Len(nodes) |-> nodes[i].elem]

\* Hashring.ApplyDiff on one ring, for a diff whose maps hold one type.
RECURSIVE AddEach(_, _, _)
AddEach(nodes, rs, t) ==
    IF rs = <<>> THEN nodes
    ELSE AddEach(HashringAdd(nodes, Head(rs), t).nodes, Tail(rs), t)

RECURSIVE AddOrUpdateEach(_, _, _)
AddOrUpdateEach(nodes, rs, t) ==
    IF rs = <<>> THEN nodes
    ELSE AddOrUpdateEach(HashringAddOrUpdate(nodes, Head(rs), t).nodes, Tail(rs), t)

RECURSIVE RemoveEach(_, _)
RemoveEach(nodes, rs) ==
    IF rs = <<>> THEN nodes
    ELSE RemoveEach(HashringRemove(nodes, Head(rs)).nodes, Tail(rs))

\* An ApplyDiff that never starts from an empty ring.
HashringApplyDiffKeeps(nodes, d, t) ==
    RemoveEach(AddOrUpdateEach(AddEach(nodes, d.new, t), d.changed, t), d.gone)

HashringApplyDiff(nodes, d, t) ==
    LET start == IF d.full THEN <<>> ELSE nodes
    IN RemoveEach(AddOrUpdateEach(AddEach(start, d.new, t), d.changed, t), d.gone)

\* A GetMany that starts at the head of the ring whatever the key.
HashringGetManyFromHead(nodes, k, num) ==
    IF Len(nodes) = 0 THEN [resources |-> <<>>, err |-> TRUE]
    ELSE [resources |-> [j \in 1..(IF num >= Len(nodes) THEN Len(nodes) ELSE num) |->
                            nodes[j].elem],
          err |-> FALSE]

\* Hashring.GetMany: num resources from the index of k on, wrapping
HashringGetMany(nodes, k, num) ==
    IF Len(nodes) = 0 THEN [resources |-> <<>>, err |-> TRUE]
    ELSE LET n == IF num >= Len(nodes) THEN Len(nodes) ELSE num
             i == getIndex(nodes, k).i
         IN [resources |-> [j \in 1..n |-> nodes[((i + j - 1) % Len(nodes)) + 1].elem],
             err |-> FALSE]

\* Hashring.GetManyFiltered, f holding for the resources whose UID is in
\* pass; visited counts the rounds of its loop
HashringGetManyFiltered(nodes, k, pass, num) ==
    IF Len(nodes) = 0 THEN [resources |-> <<>>, visited |-> 0, err |-> TRUE]
    ELSE LET n == IF num >= Len(nodes) THEN Len(nodes) ELSE num
             i == getIndex(nodes, k).i
             RECURSIVE loop(_, _, _)
             loop(j, skipped, resources) ==
                 IF j < n + i + skipped /\ skipped < Len(nodes)
                 THEN LET item == nodes[(j % Len(nodes)) + 1].elem
                      IN IF item.uid \notin pass
                         THEN loop(j + 1, skipped + 1, resources)
                         ELSE loop(j + 1, skipped, Append(resources, item))
                 ELSE [resources |-> resources, visited |-> j - i, err |-> FALSE]
         IN loop(i, 0, <<>>)

\* ---------------------------------------------------------------- stencil
\* ---------------------------------------------------------------- stencil
\* sort.Strings over the keys of the proportions
SortedKeys == <<"https", "moat">>

Dists == { SortedKeys[i] : i \in 1..Len(SortedKeys) }

PartNames == Dists \cup {"none"}

\* buildStencil: consecutive intervals, one per key in sorted order
RECURSIVE buildIntervals(_, _, _)
buildIntervals(proportions, keys, i) ==
    IF keys = <<>> THEN <<>>
    ELSE <<[Begin |-> i, End |-> i + proportions[Head(keys)] - 1, Name |-> Head(keys)]>>
            \o buildIntervals(proportions, Tail(keys), i + proportions[Head(keys)])

buildStencil == buildIntervals([https |-> 1, moat |-> 2], SortedKeys, 0)

\* The partition names a configuration may use, in lexicographic order
StencilKeys == <<"email", "https", "moat">>

\* sort.Strings over a set of those names
SortStrings(keys) == SelectSeq(StencilKeys, LAMBDA k : k \in keys)

\* interval.Contains
Contains(iv, n) == iv.Begin <= n /\ n <= iv.End

\* stencil.FindByValue: the first interval that contains n, "" for none
RECURSIVE FindByValue(_, _)
FindByValue(intervals, n) ==
    IF intervals = <<>> THEN ""
    ELSE IF Contains(Head(intervals), n) THEN Head(intervals).Name
    ELSE FindByValue(Tail(intervals), n)

\* stencil.GetUpperEnd: the maximum End, -1 for the error of an empty stencil
RECURSIVE MaxEnd(_, _)
MaxEnd(intervals, max) ==
    IF intervals = <<>> THEN max
    ELSE MaxEnd(Tail(intervals), IF Head(intervals).End > max THEN Head(intervals).End ELSE max)

GetUpperEnd(intervals) == IF Len(intervals) = 0 THEN -1 ELSE MaxEnd(intervals, 0)

\* What rand.Seed(uid); rand.Intn(upperEnd + 1) may yield for our UIDs: a
\* function of the UID with values in 0..upperEnd, fixed for a run.
BUIDs == 1..MaxBUid

Draws ==
    { [u \in BUIDs |-> u % (GetUpperEnd(buildStencil) + 1)],
      [u \in BUIDs |-> (u + 2) % (GetUpperEnd(buildStencil) + 1)] }

\* stencil.GetPartitionName, with intn the values of rand.Intn
StencilGetPartitionName(intervals, r, intn) ==
    IF GetUpperEnd(intervals) < 0 THEN ""
    ELSE FindByValue(intervals, intn[r.uid])

\* ---------------------------------------------------- partitioned hashring
Range(seq) == { seq[i] : i \in 1..Len(seq) }

\* The loop over the relation identifiers in
\* partitionedHashring.getPartitionName: every match overwrites the name.
RECURSIVE RelationMatch(_, _, _, _)
RelationMatch(names, rel, ids, acc) ==
    IF ids = <<>> THEN acc
    ELSE RelationMatch(names, rel, Tail(ids),
             IF Head(ids) \in DOMAIN rel /\ rel[Head(ids)] \in names
             THEN rel[Head(ids)] ELSE acc)

\* partitionedHashring.getPartitionName; names are the existing partitions
getPartitionName(names, rel, r, intn) ==
    LET partitionName == RelationMatch(names, rel, r.rels, "")
    IN IF partitionName = ""
       THEN StencilGetPartitionName(buildStencil, r, intn)
       ELSE partitionName

\* partitionedHashring.addRelationIdentifiers
addRelationIdentifiers(rel, r, partitionName) ==
    [id \in DOMAIN rel \cup Range(r.rels) |->
        IF id \in Range(r.rels) THEN partitionName ELSE rel[id]]

\* A choice of partition that never looks at the declared distributor.
getPartitionNameUndeclared(names, rel, r, intn) == getPartitionName(names, rel, r, intn)

\* partitionedWithDistributors.getPartitionName
getPartitionNameDist(names, rel, r, intn) ==
    IF r.dist # ""
    THEN IF r.dist \notin names THEN "none" ELSE r.dist
    ELSE getPartitionName(names, rel, r, intn)

\* partitionedWithDistributors.addRelationIdentifiers
addRelationIdentifiersDist(rel, r, partitionName) ==
    IF partitionName = "none" THEN rel
    ELSE addRelationIdentifiers(rel, r, partitionName)

\* partitionedWithDistributors.Add
PartitionedAddDist(parts, rel, r, t, intn) ==
    LET name == getPartitionNameDist(DOMAIN parts, rel, r, intn)
        x == HashringAdd(parts[name], r, t)
    IN [parts |-> [parts EXCEPT ![name] = x.nodes],
        rel |-> addRelationIdentifiersDist(rel, r, name),
        name |-> name, err |-> x.err]

\* partitionedWithDistributors.AddOrUpdate
PartitionedAddOrUpdate(parts, rel, r, t, intn) ==
    LET name == getPartitionNameDist(DOMAIN parts, rel, r, intn)
        x == HashringAddOrUpdate(parts[name], r, t)
    IN [parts |-> [parts EXCEPT ![name] = x.nodes],
        rel |-> addRelationIdentifiersDist(rel, r, name),
        name |-> name, event |-> x.event, tested |-> x.tested]

\* partitionedHashring.Add, which initStore calls for every stored resource
PartitionedAdd(parts, rel, r, t, intn) ==
    LET name == getPartitionName(DOMAIN parts, rel, r, intn)
    IN [parts |-> [parts EXCEPT ![name] = HashringAdd(parts[name], r, t).nodes],
        rel |-> addRelationIdentifiers(rel, r, name)]

\* partitionedHashring.Prune: every partition is pruned; each pruned
\* resource is listed with the partition it came from.
RECURSIVE PruneAll(_, _, _)
PruneAll(parts, order, t) ==
    IF order = <<>> THEN [parts |-> parts, pruned |-> <<>>]
    ELSE LET name == Head(order)
             x == HashringPrune(parts[name], t)
             rest == PruneAll([parts EXCEPT ![name] = x.nodes], Tail(order), t)
         IN [parts |-> rest.parts,
             pruned |-> [i \in 1..Len(x.pruned) |-> [r |-> x.pruned[i], from |-> name]]
                           \o rest.pruned]

\* partitionedHashring.GetAll in one order of the partitions
RECURSIVE PartitionedGetAll(_, _)
PartitionedGetAll(parts, order) ==
    IF order = <<>> THEN <<>>
    ELSE GetAll(parts[Head(order)]) \o PartitionedGetAll(parts, Tail(order))

\* The orders in which a range over the partitions map may visit them.
Orders(names) ==
    { o \in [1..Cardinality(names) -> names] :
        \A i, j \in 1..Cardinality(names) : i # j => o[i] # o[j] }

\* ------------------------------------------------------- backend resources
\* What the resources handed to the backend declare: their relation
\* identifiers and their distributor.
Profiles ==
    << [rels |-> <<"f1">>, dist |-> ""],
       [rels |-> <<"f2">>, dist |-> ""],
       [rels |-> <<"f1", "f2">>, dist |-> ""],
       [rels |-> <<"f1">>, dist |-> "none"] >>

\* A resource of each UID and profile; the profile is part of the content,
\* so it shows in the OID.
BackendInputs ==
    { Resource(u, p, Profiles[p].rels, Profiles[p].dist, StateUntested, SpeedUntested) :
        u \in BUIDs, p \in 1..Len(Profiles) }

\* What the resources handed to the partitioned hashring of PartitionSpec
\* declare: no distributor, a real one, and one that is unknown.
DeclaredProfiles ==
    << [rels |-> <<"f1">>, dist |-> ""],
       [rels |-> <<"f1">>, dist |-> "moat"],
       [rels |-> <<"f1">>, dist |-> "email"] >>

PartitionInputs ==
    { Resource(u, p, DeclaredProfiles[p].rels, DeclaredProfiles[p].dist,
               StateUntested, SpeedUntested) :
        u \in BUIDs, p \in 1..Len(DeclaredProfiles) }

\* The resources of the stream specification: no relations, no distributor.
StreamInputs == { Resource(u, 0, <<>>, "", StateUntested, SpeedUntested) : u \in BUIDs }

\* json.Marshal of a resource: the test state, speed and time are not written
Marshal(r) ==
    [uid |-> r.uid, oid |-> r.oid, rels |-> r.rels, dist |-> r.dist,
     lastPassed |-> r.lastPassed, expiry |-> r.expiry]

\* json.Unmarshal into a resource made by NewResource
Unmarshal(m) ==
    [uid |-> m.uid, oid |-> m.oid, rels |-> m.rels, dist |-> m.dist,
     state |-> StateUntested, speed |-> SpeedUntested, lastTested |-> 0,
     lastPassed |-> m.lastPassed, expiry |-> m.expiry]

MarshalEach(rs) == [i \in 1..Len(rs) |-> Marshal(rs[i])]

\* partitionedHashring.save: the document written to the store
SaveData(parts, rel, order) ==
    [Relations |-> rel, Resources |-> MarshalEach(PartitionedGetAll(parts, order))]

\* The loop of partitionedHashring.initStore over the stored resources
RECURSIVE LoadEach(_, _, _, _, _)
LoadEach(parts, rel, ms, t, intn) ==
    IF ms = <<>> THEN [parts |-> parts, rel |-> rel]
    ELSE LET x == PartitionedAdd(parts, rel, Unmarshal(Head(ms)), t, intn)
         IN LoadEach(x.parts, x.rel, Tail(ms), t, intn)

\* Hashring.initStore: NewHashring, then Add for every stored resource
NewHashringFromStore(docs, t) ==
    IF docs = <<>> THEN <<>>
    ELSE AddEach(<<>>, [i \in 1..Len(docs[1]) |-> Unmarshal(docs[1][i])], t)

\* NewBackendResources: newPartitionedHashring, initStore from the documents
\* in the store (none, or the one last saved), then
\* newPartitionedWithDistributors adds the "none" partition.
NewBackendResources(docs, t, intn) ==
    LET fresh == [n \in Dists |-> <<>>]
        x == IF docs = <<>> THEN [parts |-> fresh, rel |-> [id \in {} |-> ""]]
             ELSE LoadEach(fresh, docs[1].Relations, docs[1].Resources, t, intn)
    IN [parts |-> [n \in PartNames |-> IF n = "none" THEN <<>> ELSE x.parts[n]],
        rel |-> x.rel]

\* A Get that takes every resource for working.
BackendGetUngated(parts, distName, fl) ==
    IF distName \notin DOMAIN parts
    THEN [Working |-> <<>>, Notworking |-> <<>>]
    ELSE [Working |-> GetAll(parts[distName]), Notworking |-> <<>>]

\* BackendResources.Get for our resource type
BackendGet(parts, distName, fl) ==
    IF distName \notin DOMAIN parts
    THEN [Working |-> <<>>, Notworking |-> <<>>]
    ELSE LET all == GetAll(parts[distName])
             works(r) == /\ (~fl.OnlyFunctional \/ r.state = StateFunctional)
                         /\ (~fl.UseBandwidthRatio \/ r.speed # SpeedRejected)
         IN [Working |-> SelectSeq(all, works),
             Notworking |-> SelectSeq(all, LAMBDA r : ~works(r))]

\* calcTestedResources over the resources of all hashrings of the collection:
\* the new OnlyFunctional and UseBandwidthRatio.  The fractions are float64
\* quotients: count / numResources >= 0.5 is 2 * count >= numResources for a
\* positive numResources, and false for 0 / 0, which is NaN.
calcTestedResources(resources) ==
    LET functionalCount ==
            Cardinality({ i \in 1..Len(resources) : resources[i].state = StateFunctional })
        acceptedCount ==
            Cardinality({ i \in 1..Len(resources) : resources[i].speed = SpeedAccepted })
        numResources == Len(resources)
    IN [OnlyFunctional |-> numResources # 0 /\ 2 * functionalCount >= numResources,
        UseBandwidthRatio |-> numResources # 0 /\ 2 * acceptedCount >= numResources]

\* Hashring.getPartitionName
HashringGetPartitionName(r) == ""

\* BackendResources.Get for the unpartitioned type: Hashring.getHashring
\* returns the hashring whatever the distributor
BackendGetUnpartitioned(nodes, fl) ==
    LET all == GetAll(nodes)
        works(r) == /\ (~fl.OnlyFunctional \/ r.state = StateFunctional)
                    /\ (~fl.UseBandwidthRatio \/ r.speed # SpeedRejected)
    IN [Working |-> SelectSeq(all, works),
        Notworking |-> SelectSeq(all, LAMBDA r : ~works(r))]

\* ----------------------------------------------------------- subscribers
\* The request origins: the distributors with a partition, gettor, which
\* has none, and the empty name.
Origins == Dists \cup {"gettor", ""}

Conns == 1..MaxConn

\* A connection no handler serves.
FreeConn ==
    [pc |-> "free", origin |-> "", wants |-> FALSE, client |-> "ok",
     held |-> <<>>, out |-> <<>>]

\* The diff propagateUpdate builds for an update
UpdateDiff(u) ==
    NewDiff(FALSE,
            IF u.event = ResourceIsNew THEN <<u.r>> ELSE <<>>,
            IF u.event = ResourceChanged THEN <<u.r>> ELSE <<>>,
            IF u.event = ResourceIsGone THEN <<u.r>> ELSE <<>>)

\* What the client sees of a written document
DocShape(d) ==
    [full |-> d.full, new |-> d.new # <<>>, changed |-> d.changed # <<>>,
     gone |-> d.gone # <<>>]

\* The slice UnregisterChan leaves: the channels without the first
\* occurrence of the recipient's.
RECURSIVE WithoutChan(_, _)
WithoutChan(chans, c) ==
    IF chans = <<>> THEN <<>>
    ELSE IF Head(chans) = c THEN Tail(chans)
    ELSE <<Head(chans)>> \o WithoutChan(Tail(chans), c)

UnregisterChans(chans, c) ==
    IF c \in Range(chans) THEN WithoutChan(chans, c) ELSE <<>>

\* The channels propagateUpdate sends an update of the partition distName to
Recipients(recs, distName) ==
    IF distName \in DOMAIN recs /\ recs[distName].reg /\ recs[distName].wants
    THEN recs[distName].chans
    ELSE <<>>

\* -------------------------------------------------------- the test pool
\* NewResourceTestPool: nothing in progress, an empty batch, the ticker set
\* far in the future, the dispatcher started.
NewResourceTestPool ==
    [inProgress |-> {}, rMap |-> {}, armed |-> FALSE, tick |-> FALSE,
     flights |-> {}, waiting |-> {}, stopped |-> FALSE, running |-> TRUE]

\* An alreadyInProgress that does not record the bridge line.
alreadyInProgressForgets(inProgress, s) ==
    [found |-> s \in inProgress, inProgress |-> inProgress]

\* ResourceTestPool.alreadyInProgress
alreadyInProgress(inProgress, s) ==
    [found |-> s \in inProgress, inProgress |-> inProgress \cup {s}]

\* A dispatcher that never starts its timer.
DispatchPendingUnarmed(p, s, stale) ==
    LET a == alreadyInProgress(p.inProgress, s)
    IN IF a.found THEN [p EXCEPT !.waiting = @ \ {s}]
       ELSE [p EXCEPT !.waiting = @ \ {s}, !.inProgress = a.inProgress,
                      !.rMap = @ \cup {s}]

\* dispatch, case r := <-p.pending.  ticker.Reset may leave a tick that is
\* already in the ticker's channel (stale) or discard it.
DispatchPending(p, s, stale) ==
    LET a == alreadyInProgress(p.inProgress, s)
        rMap == p.rMap \cup {s}
    IN IF a.found THEN [p EXCEPT !.waiting = @ \ {s}]
       ELSE IF Cardinality(rMap) = MaxBatch
       THEN [p EXCEPT !.waiting = @ \ {s}, !.inProgress = a.inProgress,
                      !.armed = FALSE, !.tick = @ /\ stale,
                      !.flights = @ \cup {rMap}, !.rMap = {}]
       ELSE [p EXCEPT !.waiting = @ \ {s}, !.inProgress = a.inProgress,
                      !.armed = IF p.rMap = {} THEN TRUE ELSE @,
                      !.tick = IF p.rMap = {} THEN @ /\ stale ELSE @,
                      !.rMap = rMap]

\* dispatch, case <-ticker.C
DispatchTick(p) ==
    [p EXCEPT !.tick = FALSE, !.flights = @ \cup {p.rMap}, !.rMap = {}]

\* A testResources whose deferred function leaves inProgress alone.
TestResourcesDoneKeeps(p, batch) ==
    [p EXCEPT !.flights = @ \ {batch}]

\* testResources returns: its deferred function clears its batch from
\* inProgress
TestResourcesDone(p, batch) ==
    [p EXCEPT !.flights = @ \ {batch}, !.inProgress = @ \ batch]

\* The entries of a bandwidth response (BridgeTest).  A pointer is a sequence
\* of at most one value; ratios and thresholds are whole numbers.
OnbascaEntries ==
    [Functional : BOOLEAN,
     Ratio : {<<>>} \cup { <<v>> : v \in 0..(MaxRatio + 1) },
     Error : {"", "timeout"}]

\* testOnbasca, the body of its loop over resp.Bridges for one entry: the
\* resource's test result afterwards, or the panic of a nil dereference.
testOnbascaEntry(rTest, bridgeTest, bandwidthRatioThreshold) ==
    IF bridgeTest.Error # ""
    THEN [panic |-> FALSE, Speed |-> SpeedUntested, Ratio |-> <<>>]
    ELSE IF bridgeTest.Ratio # <<>> /\ bridgeTest.Ratio[1] = 0 /\ bridgeTest.Functional
    THEN [panic |-> FALSE, Speed |-> SpeedUntested, Ratio |-> <<>>]
    ELSE IF bridgeTest.Ratio = <<>>
    THEN [panic |-> TRUE, Speed |-> rTest.Speed, Ratio |-> rTest.Ratio]
    ELSE [panic |-> FALSE,
          Speed |-> IF bridgeTest.Ratio[1] < bandwidthRatioThreshold
                    THEN SpeedRejected ELSE SpeedAccepted,
          Ratio |-> bridgeTest.Ratio]

\* ---------------------------------------------------------------- identity
\* A string is a sequence of characters, a character a number below the
\* base of NewHashkey.  The resource types come first among the characters,
\* then the addresses (for a link: its URLs), the fingerprints and their
\* hashes, and last the "|" of the object identifiers.
RTypes == <<"vanilla", "obfs3", "obfs4", "tblink">>

\* NewHashkey: the CRC-64 of the string, taken to be free of collisions on
\* the strings at hand: the value of the string read as a number.
RECURSIVE NewHashkey(_)
NewHashkey(id) ==
    IF id = <<>> THEN 1
    ELSE NewHashkey(SubSeq(id, 1, Len(id) - 1)) * (Len(RTypes) + MaxAddr + 2 * MaxFp + 2)
             + id[Len(id)]

\* The bridges, transports and links whose identifiers are compared; a link
\* has no fingerprint, and its Address is its Link.
Artifacts ==
    { r \in [RType : { RTypes[i] : i \in 1..Len(RTypes) }, Fingerprint : 1..MaxFp,
             Address : 1..MaxAddr] : r.RType = "tblink" => r.Fingerprint = 1 }

\* BridgeBase.BridgeUid, over HashFingerprint: the SHA-1 of the fingerprint,
\* another string
BridgeUid(b, rType) ==
    NewHashkey(<<CHOOSE i \in 1..Len(RTypes) : RTypes[i] = rType,
                 Len(RTypes) + MaxAddr + MaxFp + b.Fingerprint>>)

\* Bridge.Oid: the bridge line, "|" and oidString (the distribution, the OR
\* addresses and the flags, which stay as they are)
BridgeOid(b) ==
    NewHashkey(<<Len(RTypes) + b.Address, Len(RTypes) + MaxAddr + b.Fingerprint,
                 Len(RTypes) + MaxAddr + 2 * MaxFp + 1>>)

\* Transport.Uid: the hash of Transport.String, which holds the type, the
\* address and the fingerprint
TransportUid(t) ==
    NewHashkey(<<CHOOSE i \in 1..Len(RTypes) : RTypes[i] = t.RType,
                 Len(RTypes) + t.Address, Len(RTypes) + MaxAddr + t.Fingerprint>>)

\* Transport.Oid
TransportOid(t) ==
    NewHashkey(<<CHOOSE i \in 1..Len(RTypes) : RTypes[i] = t.RType,
                 Len(RTypes) + t.Address, Len(RTypes) + MaxAddr + t.Fingerprint,
                 Len(RTypes) + MaxAddr + 2 * MaxFp + 1>>)

\* TBLink.Oid without a custom identifier; TBLink.Uid returns the same
TBLinkOid(tl) == NewHashkey(<<Len(RTypes) + tl.Address>>)

\* ------------------------------------------------------------------ state
VARIABLES
    ring,        \* Hashring.hashnodes of a plain hashring: the one RingSpec
                 \* drives, the one of the unpartitioned type in the backend
    now,         \* time.Now(), in ticks
    last,        \* the last operation: its name, argument and what it returned
    partitions,  \* partitionedHashring.partitions: the nodes of each partition
    relations,   \* partitionedHashring.relations
    intn,        \* what rand.Intn yields after rand.Seed(uid), per UID
    flags,       \* BackendResources.OnlyFunctional and UseBandwidthRatio
    pool,        \* the ResourceTestPool, its dispatcher and its test runs
    recipients,  \* BackendResources.EventRecipients, per request origin
    conns,       \* the stream handlers, their channels and their clients
    todo,        \* the updates whose propagateUpdate has yet to begin: the pruned
                 \* resources of BackendResources.Prune, the goroutines that are
                 \* inside BackendResources.Add
    cur,         \* the updates propagateUpdate is sending, under the read lock
    sends,       \* the channels propagateUpdate has yet to send it to
    store,       \* the documents in the persistent store, if any, per hashring
    crashed      \* the process panicked

backendVars == <<partitions, relations, intn, flags, pool, recipients, conns, todo, cur, sends, store, crashed>>
vars == <<ring, now, last, partitions, relations, intn, flags, pool, recipients, conns, todo, cur, sends, store, crashed>>

\* What an operation leaves in last: its name, the UID and OID of its
\* argument, the event or the error it returned, the resources it pruned.
Op(name, r, event, err, pruned) ==
    [op |-> name, uid |-> r.uid, oid |-> IF r.uid = 0 THEN 0 ELSE r.oid,
     event |-> event, err |-> err, pruned |-> pruned]

NoOp(name) == Op(name, NoResource, ResourceUnchanged, FALSE, <<>>)

\* ------------------------------------------------- one hashring: RingSpec
\* The state after construction, with an empty store.
BackendInit ==
    /\ partitions = NewBackendResources(<<>>, 0, intn).parts
    /\ relations = [id \in {} |-> ""]
    /\ flags = [OnlyFunctional |-> FALSE, UseBandwidthRatio |-> FALSE]
    /\ pool = NewResourceTestPool
    /\ recipients = [o \in Origins |-> [reg |-> FALSE, wants |-> FALSE, chans |-> <<>>]]
    /\ conns = [c \in Conns |-> FreeConn]
    /\ todo = <<>>
    /\ cur = <<>>
    /\ sends = <<>>
    /\ store = ([partitioned |-> <<>>, unpartitioned |-> <<>>])
    /\ crashed = FALSE

RingInit ==
    /\ ring = <<>>
    /\ now = 0
    /\ last = NoOp("init")
    /\ intn = CHOOSE d \in Draws : TRUE
    /\ BackendInit

RingAdd ==
    \E r \in RingInputs :
        LET x == HashringAdd(ring, r, now)
        IN /\ ring' = x.nodes
           /\ last' = Op("Add", r, ResourceUnchanged, x.err, <<>>)
           /\ UNCHANGED <<now, backendVars>>

RingAddOrUpdate ==
    \E r \in RingInputs :
        LET x == HashringAddOrUpdate(ring, r, now)
        IN /\ ring' = x.nodes
           /\ last' = Op("AddOrUpdate", r, x.event, FALSE, <<>>)
           /\ UNCHANGED <<now, backendVars>>

RingRemove ==
    \E r \in RingInputs :
        LET x == HashringRemove(ring, r)
        IN /\ ring' = x.nodes
           /\ last' = Op("Remove", r, ResourceUnchanged, x.err, <<>>)
           /\ UNCHANGED <<now, backendVars>>

RingPrune ==
    LET x == HashringPrune(ring, now)
    IN /\ ring' = x.nodes
       /\ last' = Op("Prune", NoResource, ResourceUnchanged, FALSE, x.pruned)
       /\ UNCHANGED <<now, backendVars>>

RingClear ==
    /\ ring' = <<>>
    /\ last' = NoOp("Clear")
    /\ UNCHANGED <<now, backendVars>>

RingApplyDiff ==
    \E d \in RingDiffs :
        /\ ring' = HashringApplyDiff(ring, d, now)
        /\ last' = NoOp("ApplyDiff") @@ [diff |-> d]
        /\ UNCHANGED <<now, backendVars>>

Tick ==
    /\ now < MaxTime
    /\ now' = now + 1
    /\ todo = <<>> /\ cur = <<>>
    /\ ~crashed
    /\ last' = NoOp("Tick")
    /\ UNCHANGED <<ring, backendVars>>

RingSpec ==
    RingInit /\ [][RingAdd \/ RingAddOrUpdate \/ RingRemove \/ RingPrune
        \/ RingClear \/ RingApplyDiff \/ Tick]_vars

\* ------------------------------ one hashring, tested resources: UpdateSpec
UpdAdd ==
    \E r \in UpdateInputs :
        LET x == HashringAdd(ring, r, now)
        IN /\ ring' = x.nodes
           /\ last' = Op("Add", r, ResourceUnchanged, x.err, <<>>)
                          @@ [tested |-> IF x.tested = NoResource THEN NoResource
                                         ELSE [uid |-> x.tested.uid, oid |-> x.tested.oid]]
           /\ UNCHANGED <<now, backendVars>>

UpdAddOrUpdate ==
    \E r \in UpdateInputs :
        LET x == HashringAddOrUpdate(ring, r, now)
        IN /\ ring' = x.nodes
           /\ last' = Op("AddOrUpdate", r, x.event, FALSE, <<>>)
                          @@ [tested |-> IF x.tested = NoResource THEN NoResource
                                         ELSE [uid |-> x.tested.uid, oid |-> x.tested.oid]]
           /\ UNCHANGED <<now, backendVars>>

UpdRemove ==
    \E r \in UpdateInputs :
        LET x == HashringRemove(ring, r)
        IN /\ ring' = x.nodes
           /\ last' = Op("Remove", r, ResourceUnchanged, x.err, <<>>)
           /\ UNCHANGED <<now, backendVars>>

UpdateSpec ==
    RingInit /\ [][UpdAdd \/ UpdAddOrUpdate \/ UpdRemove]_vars

\* testBridgestrap and testOnbasca write a test result into a resource that
\* the ring holds: maybeTestResource hands the stored object to Test() when
\* the OID is unchanged.
UpdTested ==
    \E i \in 1..Len(ring), ts \in TestResults :
        /\ ring' = [ring EXCEPT ![i].elem.state = ts[1], ![i].elem.speed = ts[2],
                                ![i].elem.lastTested = now]
        /\ UNCHANGED <<now, last, backendVars>>

\* Ingest cycles and test results take turns on one hashring.
RetestSpec ==
    RingInit /\ [][UpdAdd \/ UpdAddOrUpdate \/ UpdTested \/ Tick]_vars

\* ------------------------------------------------------ the backend: Spec
Init ==
    /\ ring = <<>>
    /\ now = 0
    /\ last = NoOp("init")
    /\ intn \in Draws
    /\ BackendInit

Idle == todo = <<>> /\ cur = <<>>

\* The ingest handlers wait while a client's log is full.
Room == \A c \in Conns : Len(conns[c].out) < MaxOut

\* An update with the partition the operation acted on and the partition
\* name propagateUpdate computes for it.
Update(r, event, owner, post) ==
    [r |-> r, event |-> event, owner |-> owner, post |-> post,
     dest |-> getPartitionNameDist(DOMAIN partitions', relations', r, intn)]

\* Collection.Save: every hashring of the collection writes its document;
\* partitionedHashring.save may visit the partitions in any order
SaveAll(parts, rel, nodes) ==
    \E o \in Orders(PartNames) :
        store' = [partitioned |-> <<SaveData(parts, rel, o)>>,
                  unpartitioned |-> <<MarshalEach(GetAll(nodes))>>]

\* postResourcesHandler for one resource: BackendResources.Add, which
\* propagates the update, then Save.
Post(inputs) ==
    \E r \in inputs :
        /\ ~crashed /\ Idle /\ Room
        /\ LET x == PartitionedAddOrUpdate(partitions, relations, r, now, intn)
           IN /\ partitions' = x.parts
              /\ relations' = x.rel
              /\ LET u == Update(r, x.event, x.name, TRUE)
                     chans == IF x.event = ResourceUnchanged THEN <<>>
                              ELSE Recipients(recipients, u.dest)
                 IN IF chans = <<>>
                    THEN /\ SaveAll(x.parts, x.rel, ring)
                         /\ UNCHANGED <<cur, sends>>
                    ELSE /\ cur' = <<u>>
                         /\ sends' = chans
                         /\ UNCHANGED store
        /\ UNCHANGED <<ring, now, last, intn, flags, pool, recipients, conns, todo, crashed>>

\* pruneExpiredResources: BackendResources.Prune up to its loop over the
\* pruned resources
Prune ==
    \E x \in { PruneAll(partitions, o, now) : o \in Orders(PartNames) } :
        /\ ~crashed /\ Idle /\ Room
        /\    /\ partitions' = x.parts
              /\ todo' = [i \in 1..Len(x.pruned) |->
                             [r |-> x.pruned[i].r, event |-> ResourceIsGone,
                              owner |-> x.pruned[i].from, post |-> FALSE, dest |-> ""]]
        /\ UNCHANGED <<ring, now, last, relations, intn, flags, pool, recipients, conns,
                       cur, sends, store, crashed>>

\* One round of the loop of BackendResources.Prune: propagateUpdate for the
\* next pruned resource, up to its first send.
Propagate ==
    /\ ~crashed /\ cur = <<>> /\ todo # <<>>
    /\ LET h == Head(todo)
           u == [h EXCEPT !.dest = getPartitionNameDist(DOMAIN partitions, relations, h.r, intn)]
           chans == Recipients(recipients, u.dest)
       IN /\ todo' = Tail(todo)
          /\ IF chans = <<>>
             THEN UNCHANGED <<cur, sends>>
             ELSE cur' = <<u>> /\ sends' = chans
    /\ UNCHANGED <<ring, now, last, partitions, relations, intn, flags, pool, recipients,
                   conns, store, crashed>>

\* getResourceStreamHandler up to RegisterChan, which takes the write lock
Connect(cs, origins, wanted) ==
    \E c \in cs, o \in origins, w \in wanted :
        /\ ~crashed /\ cur = <<>>
        /\ conns[c].pc = "free"
        /\ conns' = [conns EXCEPT ![c] = [FreeConn EXCEPT !.pc = "init", !.origin = o, !.wants = w]]
        /\ recipients' = [recipients EXCEPT ![o] =
                              IF ~@.reg THEN [reg |-> TRUE, wants |-> w, chans |-> <<c>>]
                              ELSE [@ EXCEPT !.chans = Append(@, c)]]
        /\ UNCHANGED <<ring, now, last, partitions, relations, intn, flags, pool, todo, cur,
                       sends, store, crashed>>

\* A first document that is not marked as a full update.
InitialDiffNotFull(c) ==
    NewDiff(FALSE,
            IF conns[c].wants THEN BackendGet(partitions, conns[c].origin, flags).Working
            ELSE <<>>,
            <<>>, <<>>)

\* processResourceRequest and the diff the handler makes of its result
InitialDiff(c) ==
    NewDiff(TRUE,
            IF conns[c].wants THEN BackendGet(partitions, conns[c].origin, flags).Working
            ELSE <<>>,
            <<>>, <<>>)

\* sendDiff: the write reaches a connected client, fails for one that left
Written(c, d) == IF conns[c].client = "ok" THEN Append(conns[c].out, DocShape(d)) ELSE conns[c].out

\* The handler sends the initial batch and enters its loop.
SendInitial ==
    \E c \in Conns :
        /\ ~crashed
        /\ conns[c].pc = "init"
        /\ conns[c].client # "stalled"
        /\ conns' = [conns EXCEPT ![c].pc = "loop", ![c].out = Written(c, InitialDiff(c))]
        /\ UNCHANGED <<ring, now, last, partitions, relations, intn, flags, pool, recipients,
                       todo, cur, sends, store, crashed>>

\* c <- diff in propagateUpdate meets diff := <-diffs in the handler's loop
\* or in its drain; after the last send propagateUpdate returns, and the
\* handler of a POST saves.
Send ==
    \E c \in Conns :
        /\ ~crashed
        /\ sends # <<>> /\ Head(sends) = c
        /\ conns[c].pc \in {"loop", "drain"}
        /\ conns' = [conns EXCEPT ![c].pc = IF @ = "loop" THEN "write" ELSE "dwrite",
                                  ![c].held = <<[diff |-> UpdateDiff(cur[1]), owner |-> cur[1].owner]>>]
        /\ sends' = Tail(sends)
        /\ IF Tail(sends) = <<>>
           THEN /\ cur' = <<>>
                /\ IF cur[1].post
                   THEN SaveAll(partitions, relations, ring)
                   ELSE UNCHANGED store
           ELSE UNCHANGED <<cur, store>>
        /\ UNCHANGED <<ring, now, last, partitions, relations, intn, flags, pool, recipients,
                       todo, crashed>>

\* c <- diff on a channel its handler has closed
SendOnClosed ==
    /\ ~crashed
    /\ sends # <<>>
    /\ conns[Head(sends)].pc = "closed"
    /\ crashed' = TRUE
    /\ UNCHANGED <<ring, now, last, partitions, relations, intn, flags, pool, recipients,
                   conns, todo, cur, sends, store>>

\* sendDiff of a received diff
Write ==
    \E c \in Conns :
        /\ ~crashed
        /\ conns[c].pc \in {"write", "dwrite"}
        /\ conns[c].client # "stalled"
        /\ conns' = [conns EXCEPT ![c].pc = IF @ = "write" THEN "loop" ELSE "drain",
                                  ![c].held = <<>>,
                                  ![c].out = Written(c, conns[c].held[1].diff)]
        /\ UNCHANGED <<ring, now, last, partitions, relations, intn, flags, pool, recipients,
                       todo, cur, sends, store, crashed>>

\* case <-r.Context().Done() of the handler's loop
ContextDone ==
    \E c \in Conns :
        /\ ~crashed
        /\ conns[c].pc = "loop"
        /\ conns[c].client = "gone"
        /\ conns' = [conns EXCEPT ![c].pc = "drain"]
        /\ UNCHANGED <<ring, now, last, partitions, relations, intn, flags, pool, recipients,
                       todo, cur, sends, store, crashed>>

\* default of the drain: the handler returns and close(diffs) runs
Return ==
    \E c \in Conns :
        /\ ~crashed
        /\ conns[c].pc = "drain"
        /\ ~(sends # <<>> /\ Head(sends) = c)
        /\ conns' = [conns EXCEPT ![c].pc = "closed"]
        /\ UNCHANGED <<ring, now, last, partitions, relations, intn, flags, pool, recipients,
                       todo, cur, sends, store, crashed>>

\* the deferred UnregisterChan, which takes the write lock
Unregister ==
    \E c \in Conns :
        /\ ~crashed /\ cur = <<>>
        /\ conns[c].pc = "closed"
        /\ recipients' = [recipients EXCEPT ![conns[c].origin].chans = UnregisterChans(@, c)]
        /\ conns' = [conns EXCEPT ![c] = FreeConn]
        /\ UNCHANGED <<ring, now, last, partitions, relations, intn, flags, pool, todo, cur,
                       sends, store, crashed>>

\* The client stops reading its stream.
ClientStall(cs) ==
    \E c \in cs :
        /\ ~crashed
        /\ conns[c].pc # "free" /\ conns[c].client = "ok"
        /\ conns' = [conns EXCEPT ![c].client = "stalled"]
        /\ UNCHANGED <<ring, now, last, partitions, relations, intn, flags, pool, recipients,
                       todo, cur, sends, store, crashed>>

\* The client reads again.
ClientResume ==
    \E c \in Conns :
        /\ ~crashed
        /\ conns[c].client = "stalled"
        /\ conns' = [conns EXCEPT ![c].client = "ok"]
        /\ UNCHANGED <<ring, now, last, partitions, relations, intn, flags, pool, recipients,
                       todo, cur, sends, store, crashed>>

\* The client closes its connection.
ClientClose ==
    \E c \in Conns :
        /\ ~crashed
        /\ conns[c].pc # "free" /\ conns[c].client # "gone"
        /\ conns' = [conns EXCEPT ![c].client = "gone"]
        /\ UNCHANGED <<ring, now, last, partitions, relations, intn, flags, pool, recipients,
                       todo, cur, sends, store, crashed>>

\* Time passes between two operations of the ingest.
Elapse ==
    /\ ~crashed /\ Idle
    /\ now < MaxElapse
    /\ now' = now + 1
    /\ UNCHANGED <<ring, last, backendVars>>

\* The process ends and starts again on the store it left.
Restart ==
    /\ LET x == NewBackendResources(store.partitioned, now, intn)
       IN partitions' = x.parts /\ relations' = x.rel
    /\ ring' = NewHashringFromStore(store.unpartitioned, now)
    /\ recipients' = [o \in Origins |-> [reg |-> FALSE, wants |-> FALSE, chans |-> <<>>]]
    /\ conns' = [c \in Conns |-> FreeConn]
    /\ todo' = <<>> /\ cur' = <<>> /\ sends' = <<>>
    /\ crashed' = FALSE
    /\ pool' = NewResourceTestPool
    /\ UNCHANGED <<now, last, intn, flags, store>>

\* --------------------- the partitioned hashring with distributors alone
\* What an operation on the partitioned hashring leaves in last: its name,
\* its argument and the partition it chose.
PartOp(name, r, partitionName, err, event) ==
    [op |-> name, uid |-> r.uid, oid |-> r.oid, dist |-> r.dist, rels |-> r.rels,
     name |-> partitionName, err |-> err, event |-> event, pruned |-> <<>>]

PartAdd ==
    \E r \in PartitionInputs :
        LET x == PartitionedAddDist(partitions, relations, r, now, intn)
        IN /\ partitions' = x.parts
           /\ relations' = x.rel
           /\ last' = PartOp("PartAdd", r, x.name, x.err, ResourceUnchanged)
           /\ UNCHANGED <<ring, now, intn, flags, pool, recipients, conns, todo, cur, sends,
                          store, crashed>>

PartAddOrUpdate ==
    \E r \in PartitionInputs :
        LET x == PartitionedAddOrUpdate(partitions, relations, r, now, intn)
        IN /\ partitions' = x.parts
           /\ relations' = x.rel
           /\ last' = PartOp("PartAddOrUpdate", r, x.name, FALSE, x.event)
           /\ UNCHANGED <<ring, now, intn, flags, pool, recipients, conns, todo, cur, sends,
                          store, crashed>>

PartitionSpec ==
    Init /\ [][PartAdd \/ PartAddOrUpdate]_vars

\* Placement and persistence: resources are posted, the process restarts.
PlacementSpec ==
    Init /\ [][Post(BackendInputs) \/ Restart]_vars

\* Delivery: resources are posted and pruned, one distributor subscribes.
DeliverySpec ==
    Init /\ [][Post({ r \in BackendInputs : r.dist = "" }) \/ Prune \/ Propagate \/ Elapse
        \/ Connect({1}, Dists, {TRUE}) \/ SendInitial \/ Send
        \/ Write]_vars

\* The stream: clients come, stall and go while resources are posted.
StreamSpec ==
    Init /\ [][Post(StreamInputs) \/ Connect(Conns, {"moat"}, {TRUE})
        \/ SendInitial \/ Send \/ SendOnClosed \/ Write
        \/ ContextDone \/ Return \/ Unregister \/ ClientStall(Conns)
        \/ ClientResume \/ ClientClose]_vars

\* ------------------------------------- the unpartitioned type of resources
\* postResourcesHandler for one resource of the unpartitioned type
PostLink ==
    \E r \in { Resource(u, v, <<>>, "", StateFunctional, SpeedUntested) : u \in BUIDs, v \in Vers } :
        /\ ~crashed /\ Idle /\ Room
        /\ LET x == HashringAddOrUpdate(ring, r, now)
               u == [r |-> r, event |-> x.event, owner |-> "", post |-> TRUE,
                     dest |-> HashringGetPartitionName(r)]
               chans == IF x.event = ResourceUnchanged THEN <<>>
                        ELSE Recipients(recipients, u.dest)
           IN /\ ring' = x.nodes
              /\ last' = Op("PostLink", r, x.event, FALSE, <<>>)
              /\ IF chans = <<>>
                 THEN /\ SaveAll(partitions, relations, x.nodes)
                      /\ UNCHANGED <<cur, sends>>
                 ELSE /\ cur' = <<u>>
                      /\ sends' = chans
                      /\ UNCHANGED store
        /\ UNCHANGED <<now, partitions, relations, intn, flags, pool, recipients, conns, todo,
                       crashed>>

\* processResourceRequest for a request of the unpartitioned type
InitialLinkDiff(c) ==
    NewDiff(TRUE,
            IF conns[c].wants THEN BackendGetUnpartitioned(ring, flags).Working ELSE <<>>,
            <<>>, <<>>)

\* The handler of a request for the unpartitioned type sends the initial
\* batch and enters its loop.
SendInitialLinks ==
    \E c \in Conns :
        /\ ~crashed
        /\ conns[c].pc = "init"
        /\ conns[c].client # "stalled"
        /\ conns' = [conns EXCEPT ![c].pc = "loop", ![c].out = Written(c, InitialLinkDiff(c))]
        /\ UNCHANGED <<ring, now, last, partitions, relations, intn, flags, pool, recipients,
                       todo, cur, sends, store, crashed>>

UnpartitionedSpec ==
    Init /\ [][PostLink \/ Connect(Conns, {"gettor", ""}, {TRUE})
        \/ SendInitialLinks \/ Send \/ Write]_vars

\* ------------------------------------------------- the test pool: PoolSpec
\* The function of GetTestFunc is called: p.pending <- r begins.
PoolSubmit ==
    \E s \in (1..(MaxBatch + 1)) :
        /\ s \notin pool.waiting
        /\ pool' = [pool EXCEPT !.waiting = @ \cup {s}]
        /\ last' = [op |-> "Submit", str |-> s]
        /\ UNCHANGED <<ring, now, partitions, relations, intn, flags, recipients, conns, todo, cur, sends, store, crashed>>

\* The dispatcher receives a pending resource.
PoolDispatch ==
    \E s \in pool.waiting, stale \in BOOLEAN :
        /\ pool.running
        /\ pool' = DispatchPending(pool, s, stale)
        /\ last' = [op |-> "Dispatch", str |-> s]
        /\ UNCHANGED <<ring, now, partitions, relations, intn, flags, recipients, conns, todo, cur, sends, store, crashed>>

\* The ticker's period is over: a tick is put in its channel.
PoolTimerFires ==
    /\ pool.armed /\ ~pool.tick
    /\ pool' = [pool EXCEPT !.tick = TRUE]
    /\ last' = [op |-> "TimerFires"]
    /\ UNCHANGED <<ring, now, partitions, relations, intn, flags, recipients, conns, todo, cur, sends, store, crashed>>

\* The dispatcher receives the tick.
PoolTick ==
    /\ pool.running /\ pool.tick
    /\ pool' = DispatchTick(pool)
    /\ last' = [op |-> "Tick"]
    /\ UNCHANGED <<ring, now, partitions, relations, intn, flags, recipients, conns, todo, cur, sends, store, crashed>>

\* A run of testResources is through; err tells that a request of
\* testBridgestrap or testOnbasca failed, which ends that function early.
PoolDone ==
    \E batch \in pool.flights, err \in BOOLEAN :
        /\ pool' = TestResourcesDone(pool, batch)
        /\ last' = [op |-> "Done", batch |-> batch, err |-> err]
        /\ UNCHANGED <<ring, now, partitions, relations, intn, flags, recipients, conns, todo, cur, sends, store, crashed>>

\* ResourceTestPool.Stop
PoolStop ==
    /\ ~pool.stopped
    /\ pool' = [pool EXCEPT !.stopped = TRUE]
    /\ last' = [op |-> "Stop"]
    /\ UNCHANGED <<ring, now, partitions, relations, intn, flags, recipients, conns, todo, cur, sends, store, crashed>>

\* dispatch, case <-p.shutdown
PoolShutdown ==
    /\ pool.stopped /\ pool.running
    /\ pool' = [pool EXCEPT !.running = FALSE]
    /\ last' = [op |-> "Shutdown"]
    /\ UNCHANGED <<ring, now, partitions, relations, intn, flags, recipients, conns, todo, cur, sends, store, crashed>>

PoolSpec ==
    Init /\ [][PoolSubmit \/ PoolDispatch \/ PoolTimerFires \/ PoolTick
        \/ PoolDone \/ PoolStop \/ PoolShutdown]_vars

\* The dispatcher, the ticker and the test runs go on whenever they can, and
\* the senders blocked on the pending channel are served in turn; nothing is
\* assumed of who submits or stops.
FairPoolSpec ==
    /\ PoolSpec
    /\ \A s \in (1..(MaxBatch + 1)) : WF_vars(PoolDispatch /\ last'.str = s)
    /\ WF_vars(PoolTimerFires)
    /\ WF_vars(PoolTick)
    /\ WF_vars(PoolDone)
    /\ WF_vars(PoolShutdown)

\* ------------------------------------- the bandwidth response: OnbascaSpec
\* testOnbasca processes one entry of the response for a resource whose test
\* result is rTest.
Onbasca ==
    \E bridgeTest \in OnbascaEntries, threshold \in 1..MaxRatio,
       rTest \in { [Speed |-> SpeedUntested, Ratio |-> <<>>],
                   [Speed |-> SpeedAccepted, Ratio |-> <<MaxRatio>>],
                   [Speed |-> SpeedRejected, Ratio |-> <<0>>] } :
        LET result == testOnbascaEntry(rTest, bridgeTest, threshold)
        IN /\ ~crashed
           /\ last' = [op |-> "Onbasca", entry |-> bridgeTest, threshold |-> threshold,
                       before |-> rTest, result |-> result]
           /\ crashed' = result.panic
           /\ UNCHANGED <<ring, now, partitions, relations, intn, flags, pool,
                          recipients, conns, todo, cur, sends, store>>

OnbascaSpec == Init /\ [][Onbasca]_vars

\* ------------------------------------------------- the stencil: StencilSpec
\* buildStencil(proportions)
BuildStencil ==
    \E proportions \in (UNION { [K -> 0..MaxWeight] : K \in SUBSET { StencilKeys[i] : i \in 1..Len(StencilKeys) } }) :
        /\ last' = [op |-> "buildStencil", proportions |-> proportions,
                    stencil |-> buildIntervals(proportions,
                                               SortStrings(DOMAIN proportions), 0)]
        /\ UNCHANGED <<ring, now, partitions, relations, intn, flags, pool, recipients,
                       conns, todo, cur, sends, store, crashed>>

StencilSpec == Init /\ [][BuildStencil]_vars

\* ----------------------------------------------- identifiers: IdentitySpec
\* The identifiers of an artifact and of the same artifact at another
\* address.
Readdress ==
    \E r \in Artifacts, address \in 1..MaxAddr :
        LET Uid(x) == IF x.RType = "vanilla" THEN BridgeUid(x, x.RType)
                      ELSE IF x.RType = "tblink" THEN TBLinkOid(x)
                      ELSE TransportUid(x)
            Oid(x) == IF x.RType = "vanilla" THEN BridgeOid(x)
                      ELSE IF x.RType = "tblink" THEN TBLinkOid(x)
                      ELSE TransportOid(x)
            moved == [r EXCEPT !.Address = address]
        IN /\ last' = [op |-> "Readdress", r |-> r, address |-> address,
                       uid |-> <<Uid(r), Uid(moved)>>, oid |-> <<Oid(r), Oid(moved)>>]
           /\ UNCHANGED <<ring, now, partitions, relations, intn, flags, pool,
                          recipients, conns, todo, cur, sends, store, crashed>>

IdentitySpec == Init /\ [][Readdress]_vars

\* ------------------------------------------- block and allow lists: BlocklistSpec
\* A blockedIn where the block list wins over the allow list.
blockedInBlockFirst(bl, fingerprint) ==
    LET blockCountries == IF fingerprint \in DOMAIN bl.blocked
                          THEN bl.blocked[fingerprint] ELSE {}
        result == blockCountries
                      \cup { c \in DOMAIN bl.allowed : fingerprint \notin bl.allowed[c] }
    IN [result |-> result,
        bl |-> IF fingerprint \in DOMAIN bl.blocked
               THEN [bl EXCEPT !.blocked[fingerprint] = result] ELSE bl]

\* blocklist.blockedIn: the set of the block list for the fingerprint, or a
\* new one where the block list has none; the loop over bl.allowed deletes or
\* sets the key of its own country only, so its order does not matter. The
\* set of the block list is the map itself, which the loop therefore rewrites.
blockedIn(bl, fingerprint) ==
    LET blockCountries == IF fingerprint \in DOMAIN bl.blocked
                          THEN bl.blocked[fingerprint] ELSE {}
        result == (blockCountries
                      \ { c \in DOMAIN bl.allowed : fingerprint \in bl.allowed[c] })
                      \cup { c \in DOMAIN bl.allowed : fingerprint \notin bl.allowed[c] }
    IN [result |-> result,
        bl |-> IF fingerprint \in DOMAIN bl.blocked
               THEN [bl EXCEPT !.blocked[fingerprint] = result] ELSE bl]

\* newBlockList: the lines "fingerprint F country-code C" of the two files,
\* as pairs; blocked is keyed by fingerprint, allowed by country.
NewBlockList ==
    \E blockFile \in SUBSET ((1..MaxFp) \X {"aa", "ee"}),
       allowFile \in SUBSET ((1..MaxFp) \X {"aa", "ee"}) :
        /\ last' = [op |-> "newBlockList", blockFile |-> blockFile,
                    allowFile |-> allowFile,
                    bl |-> [blocked |-> [fp \in { p[1] : p \in blockFile } |->
                                            { p[2] : p \in { q \in blockFile : q[1] = fp } }],
                            allowed |-> [c \in { p[2] : p \in allowFile } |->
                                            { p[1] : p \in { q \in allowFile : q[2] = c } }]]]
        /\ UNCHANGED <<ring, now, partitions, relations, intn, flags, pool, recipients,
                       conns, todo, cur, sends, store, crashed>>

\* reloadBridgeDescriptors asks for the countries of one bridge.
BlockedIn ==
    \E fingerprint \in 1..MaxFp :
        /\ last.op \in {"newBlockList", "blockedIn"}
        /\ LET x == blockedIn(last.bl, fingerprint)
           IN last' = [op |-> "blockedIn", blockFile |-> last.blockFile,
                       allowFile |-> last.allowFile, bl |-> x.bl,
                       fingerprint |-> fingerprint, result |-> x.result]
        /\ UNCHANGED <<ring, now, partitions, relations, intn, flags, pool, recipients,
                       conns, todo, cur, sends, store, crashed>>

BlocklistSpec == Init /\ [][NewBlockList \/ BlockedIn]_vars

\* ------------------------------ several goroutines ingest: ConcurrentSpec
\* BackendResources.Add up to the return of hashring.AddOrUpdate, in the
\* ingest loop or in a POST handler; the hashring has its own mutex, so a
\* goroutine does not wait for the others that are in propagateUpdate.
IngestAdd(inputs) ==
    \E r \in inputs :
        /\ ~crashed
        /\ Len(todo) + Len(cur) < MaxThread
        /\ LET x == PartitionedAddOrUpdate(partitions, relations, r, now, intn)
           IN /\ partitions' = x.parts
              /\ relations' = x.rel
              /\ todo' = IF x.event = ResourceUnchanged THEN todo
                         ELSE Append(todo, [r |-> r, event |-> x.event, owner |-> x.name,
                                            post |-> FALSE, dest |-> ""])
        /\ UNCHANGED <<ring, now, last, intn, flags, pool, recipients, conns, cur, sends,
                       store, crashed>>

\* propagateUpdate of one of these goroutines takes the read lock, which the
\* goroutines share, and finds the channels of its partition.
IngestPropagate ==
    \E i \in 1..Len(todo) :
        LET dest == getPartitionNameDist(DOMAIN partitions, relations, todo[i].r, intn)
            chans == Recipients(recipients, dest)
            rest == SubSeq(todo, 1, i - 1) \o SubSeq(todo, i + 1, Len(todo))
        IN /\ ~crashed
           /\ todo' = rest
           /\ cur' = IF chans = <<>> THEN cur
                     ELSE Append(cur, [r |-> todo[i].r, event |-> todo[i].event,
                                       owner |-> todo[i].owner, post |-> FALSE,
                                       dest |-> dest, chans |-> chans])
           /\ UNCHANGED <<ring, now, last, partitions, relations, intn, flags, pool,
                          recipients, conns, sends, store, crashed>>

\* c <- diff of one of the goroutines in propagateUpdate meets diff := <-diffs
\* of the handler, which writes the diff to its client.
IngestSend ==
    \E i \in 1..Len(cur) :
        LET c == Head(cur[i].chans)
            rest == SubSeq(cur, 1, i - 1) \o SubSeq(cur, i + 1, Len(cur))
        IN /\ ~crashed
           /\ conns[c].pc = "loop" /\ conns[c].client = "ok"
           /\ Len(conns[c].out) <= MaxOut
           /\ conns' = [conns EXCEPT ![c].out = Written(c, UpdateDiff(cur[i]))]
           /\ cur' = IF Tail(cur[i].chans) = <<>> THEN rest
                     ELSE [cur EXCEPT ![i].chans = Tail(@)]
           /\ UNCHANGED <<ring, now, last, partitions, relations, intn, flags, pool,
                          recipients, todo, sends, store, crashed>>

\* Goroutines add versions of one resource while distributors subscribe, with
\* requests that list the type of the resource or do not.
ConcurrentSpec ==
    Init /\ [][IngestAdd({ Fresh(1, v) : v \in Vers }) \/ IngestPropagate \/ IngestSend
        \/ Connect(Conns, Dists, BOOLEAN) \/ SendInitial]_vars

\* --------------------------- the relations table under goroutines: RaceSpec
\* A goroutine calls BackendResources.Add: partitionedWithDistributors
\* .AddOrUpdate begins with getPartitionName, which reads p.relations.  No
\* mutex is taken: partitionedHashring has none, and the mutex of
\* BackendResources is not taken before propagateUpdate.
AddGetPartitionName(inputs) ==
    \E r \in inputs :
        /\ ~crashed
        /\ Len(todo) < MaxThread
        /\ todo' = Append(todo, [r |-> r, at |-> "getPartitionName", name |-> ""])
        /\ UNCHANGED <<ring, now, last, partitions, relations, intn, flags, pool,
                       recipients, conns, cur, sends, store, crashed>>

\* getPartitionName returns and addRelationIdentifiers begins to write
\* p.relations.
AddRelationIdentifiers ==
    \E i \in 1..Len(todo) :
        /\ ~crashed
        /\ todo[i].at = "getPartitionName"
        /\ todo' = [todo EXCEPT ![i].at = "addRelationIdentifiers",
                                ![i].name = getPartitionNameDist(DOMAIN partitions, relations,
                                                                 todo[i].r, intn)]
        /\ UNCHANGED <<ring, now, last, partitions, relations, intn, flags, pool,
                       recipients, conns, cur, sends, store, crashed>>

\* addRelationIdentifiers returns, hashring.AddOrUpdate runs under the mutex
\* of the partition's ring, and propagateUpdate takes the read lock and
\* calls getPartitionName.  Where another goroutine was in the map during
\* the write, the Go runtime may stop the process (concurrent map writes,
\* concurrent map read and map write).
AddHashring ==
    \E i \in 1..Len(todo) :
        LET name == todo[i].name
            x == HashringAddOrUpdate(partitions[name], todo[i].r, now)
            others == { j \in 1..Len(todo) : j # i }
            raced == \E j \in others :
                        todo[j].at \in {"getPartitionName", "addRelationIdentifiers",
                                        "propagateUpdate"}
        IN /\ ~crashed
           /\ todo[i].at = "addRelationIdentifiers"
           /\ relations' = addRelationIdentifiersDist(relations, todo[i].r, name)
           /\ partitions' = [partitions EXCEPT ![name] = x.nodes]
           /\ todo' = IF x.event = ResourceUnchanged
                      THEN SubSeq(todo, 1, i - 1) \o SubSeq(todo, i + 1, Len(todo))
                      ELSE [todo EXCEPT ![i].at = "propagateUpdate"]
           /\ crashed' \in (IF raced THEN BOOLEAN ELSE {FALSE})
           /\ UNCHANGED <<ring, now, last, intn, flags, pool, recipients, conns, cur,
                          sends, store>>

\* getPartitionName of propagateUpdate returns; the goroutine finds no
\* recipient and leaves.
AddReturn ==
    \E i \in 1..Len(todo) :
        /\ ~crashed
        /\ todo[i].at = "propagateUpdate"
        /\ todo' = SubSeq(todo, 1, i - 1) \o SubSeq(todo, i + 1, Len(todo))
        /\ UNCHANGED <<ring, now, last, partitions, relations, intn, flags, pool,
                       recipients, conns, cur, sends, store, crashed>>

\* The ingest loop and the POST handlers add resources at the same time.
RaceSpec ==
    Init /\ [][AddGetPartitionName({ r \in BackendInputs : r.uid = 1 })
        \/ AddRelationIdentifiers
        \/ AddHashring \/ AddReturn]_vars

\* ------------------------------ the shared random source: SeedSpec
\* A goroutine calls stencil.GetPartitionName(r): in partitionedHashring
\* .getPartitionName of an Add, or of propagateUpdate.
StencilEnter(inputs) ==
    \E r \in inputs :
        /\ Len(todo) < MaxThread
        /\ todo' = Append(todo, [r |-> r, at |-> "Seed"])
        /\ UNCHANGED <<ring, now, last, partitions, relations, intn, flags, pool,
                       recipients, conns, cur, sends, store, crashed>>

\* rand.Seed(int64(seed)) on the source all goroutines share; last is the
\* last operation on the source, which is its state.
StencilSeed ==
    \E i \in 1..Len(todo) :
        /\ todo[i].at = "Seed"
        /\ todo' = [todo EXCEPT ![i].at = "Intn"]
        /\ last' = [op |-> "Seed", seed |-> todo[i].r.uid, fresh |-> TRUE]
        /\ UNCHANGED <<ring, now, partitions, relations, intn, flags, pool, recipients,
                       conns, cur, sends, store, crashed>>

\* rand.Intn(upperEnd + 1) and FindByValue: the first value after a Seed is
\* intn of the seed, a later value of the same stream is any value.
StencilIntn ==
    \E i \in 1..Len(todo) :
        /\ todo[i].at = "Intn"
        /\ last.op \in {"Seed", "Intn"}
        /\ \E n \in (IF last.fresh THEN {intn[last.seed]}
                     ELSE 0..GetUpperEnd(buildStencil)) :
              last' = [op |-> "Intn", seed |-> last.seed, fresh |-> FALSE,
                       uid |-> todo[i].r.uid, name |-> FindByValue(buildStencil, n)]
        /\ todo' = SubSeq(todo, 1, i - 1) \o SubSeq(todo, i + 1, Len(todo))
        /\ UNCHANGED <<ring, now, partitions, relations, intn, flags, pool, recipients,
                       conns, cur, sends, store, crashed>>

\* Goroutines compute the stencil partition of resources at the same time.
SeedSpec ==
    Init /\ [][StencilEnter(StreamInputs) \/ StencilSeed \/ StencilIntn]_vars

\* ------------------------------------------------ authentication: AuthSpec
\* isAuthenticated: the status written for a request with the given
\* Authorization header, "" for none; apiTokens is Backend.ApiTokens, the
\* token of each name.  200 stands for the return of true.
isAuthenticated(apiTokens, tokenLine) ==
    IF tokenLine = "" THEN 400
    ELSE IF tokenLine[1] # "Bearer" THEN 400
    ELSE IF \E name \in DOMAIN apiTokens : tokenLine[2] = apiTokens[name] THEN 200
    ELSE 401

\* resourcesHandler for a GET on the resources endpoint: isAuthenticated,
\* then getResourcesHandler answers the request of the body.
ResourcesRequest ==
    \E origin \in Dists,
       tokenLine \in {""} \cup ({"Bearer", "Basic"} \X {"t-https", "t-moat", "t-other"}) :
        LET status == isAuthenticated([https |-> "t-https", moat |-> "t-moat"], tokenLine)
        IN /\ ~crashed /\ Idle
           /\ last' = [op |-> "resourcesHandler", origin |-> origin,
                       tokenLine |-> tokenLine, status |-> status,
                       body |-> IF status = 200
                                THEN <<BackendGet(partitions, origin, flags)>> ELSE <<>>]
           /\ UNCHANGED <<ring, now, partitions, relations, intn, flags, pool,
                          recipients, conns, todo, cur, sends, store, crashed>>

\* Resources are posted and distributors ask for theirs.
AuthSpec == Init /\ [][Post(StreamInputs) \/ ResourcesRequest]_vars

\* ------------------------------------------------ the ingest cycle: KrakenSpec
\* reloadBridgeDescriptors, one cycle of the ingestion loop.  The network
\* status names the bridges by fingerprint; a failed load gives a nil map.
\* The descriptors ask for any distributor, which leaves the distribution of
\* a bridge unset as a failed load of them does.  The bridges have no
\* transports, which is also what a failed load of the extra-info files
\* leaves.  newBlockList returns nil with its error, and the loop over the
\* bridges calls blockedIn on what it returned.  No distributor is
\* connected, so that propagateUpdate has nobody to send to.
ReloadBridgeDescriptors ==
    \E statusErr, descErr, blErr \in BOOLEAN :
    \E status \in (IF statusErr THEN {{}} ELSE SUBSET (1..MaxFp)),
       blockFile \in (IF blErr THEN {{}} ELSE SUBSET ((1..MaxFp) \X {"aa"})),
       allowFile \in (IF blErr THEN {{}} ELSE SUBSET ({1} \X {"aa"})) :
        LET bridges == status
            newBl == [blocked |-> [fp \in { p[1] : p \in blockFile } |->
                                      { p[2] : p \in { q \in blockFile : q[1] = fp } }],
                      allowed |-> [c \in { p[2] : p \in allowFile } |->
                                      { p[1] : p \in { q \in allowFile : q[2] = c } }]]
            bridge(fp, blocked) ==
                Resource(fp, 0, <<IF fp = 1 THEN "f1" ELSE "f2">>, "",
                         StateUntested, SpeedUntested) @@ [blockedIn |-> blocked]
            RECURSIVE AddEachBridge(_, _, _, _)
            AddEachBridge(parts, rel, bl, order) ==
                IF order = <<>> THEN [parts |-> parts, rel |-> rel]
                ELSE LET b == blockedIn(bl, Head(order))
                         x == PartitionedAddOrUpdate(parts, rel,
                                  bridge(Head(order), b.result), now, intn)
                     IN AddEachBridge(x.parts, x.rel, b.bl, Tail(order))
        IN /\ ~crashed /\ Idle
           /\ last' = [op |-> "reloadBridgeDescriptors", bridges |-> bridges,
                       failed |-> statusErr \/ descErr \/ blErr,
                       lists |-> IF blErr THEN <<>> ELSE <<newBl>>]
           /\ IF blErr /\ bridges # {}
              THEN /\ crashed' = TRUE
                   /\ UNCHANGED <<partitions, relations, store>>
              ELSE /\ \E order \in Orders(bridges) :
                         LET x == AddEachBridge(partitions, relations, newBl, order)
                         IN /\ partitions' = x.parts
                            /\ relations' = x.rel
                            /\ SaveAll(x.parts, x.rel, ring)
                   /\ UNCHANGED crashed
           /\ UNCHANGED <<ring, now, intn, flags, pool, recipients, conns, todo, cur, sends>>

\* The ingestion loop runs its cycles.
KrakenSpec == Init /\ [][ReloadBridgeDescriptors]_vars

\* ------------------------------------------------------ the gates: GateSpec
\* testBridgestrap and testOnbasca write a test result into a resource that a
\* partition holds.
Tested ==
    \E name \in PartNames, t \in TestResults :
        \E i \in 1..Len(partitions[name]) :
            /\ ~crashed /\ Idle
            /\ partitions' = [partitions EXCEPT ![name][i].elem.state = t[1],
                                                ![name][i].elem.speed = t[2]]
            /\ UNCHANGED <<ring, now, last, relations, intn, flags, pool, recipients,
                           conns, todo, cur, sends, store, crashed>>

\* Kraken's ticker: calcTestedResources
CalcTested ==
    /\ ~crashed /\ Idle
    /\ flags' = calcTestedResources(
                    PartitionedGetAll(partitions, CHOOSE o \in (Orders(PartNames)) : TRUE)
                        \o GetAll(ring))
    /\ last' = [op |-> "calcTestedResources"]
    /\ UNCHANGED <<ring, now, partitions, relations, intn, pool, recipients, conns,
                   todo, cur, sends, store, crashed>>

\* BackendResources.Get(distName, rType) for a distributor's request
Get ==
    \E distName \in Origins :
        /\ ~crashed /\ Idle
        /\ last' = [op |-> "Get", distName |-> distName,
                    state |-> BackendGet(partitions, distName, flags)]
        /\ UNCHANGED <<ring, now, partitions, relations, intn, flags, pool, recipients,
                       conns, todo, cur, sends, store, crashed>>

GateSpec ==
    Init /\ [][Post(StreamInputs) \/ Tested \/ CalcTested \/ Get]_vars

\* ------------------------------------------ lookups in a ring: LookupSpec
RingGetMany ==
    \E k \in 0..(MaxUid + 1), num \in 0..(MaxUid + 1) :
        /\ last' = [op |-> "GetMany", k |-> k, num |-> num,
                    got |-> HashringGetMany(ring, k, num)]
        /\ UNCHANGED <<ring, now, backendVars>>

RingGetManyFiltered ==
    \E k \in 0..(MaxUid + 1), num \in 0..(MaxUid + 1), pass \in SUBSET UIDs :
        /\ last' = [op |-> "GetManyFiltered", k |-> k, num |-> num, pass |-> pass,
                    got |-> HashringGetManyFiltered(ring, k, pass, num)]
        /\ UNCHANGED <<ring, now, backendVars>>

LookupSpec ==
    RingInit /\ [][RingAdd \/ RingRemove \/ RingGetMany \/ RingGetManyFiltered]_vars

\* Requests: the subscribers of one distributor differ in the resource
\* types they request.
RequestSpec ==
    Init /\ [][Post(StreamInputs) \/ Connect(Conns, {"moat"}, BOOLEAN)
        \/ SendInitial \/ Send \/ Write]_vars

\* The handlers and the ingest run whenever they can; nothing is assumed
\* of the clients.
FairStreamSpec ==
    /\ StreamSpec
    /\ WF_vars(SendInitial)
    /\ WF_vars(Send)
    /\ WF_vars(SendOnClosed)
    /\ WF_vars(Write)
    /\ WF_vars(ContextDone)
    /\ WF_vars(Return)
    /\ WF_vars(Unregister)

\* ------------------------------------------------------- ring properties
\* The positions of the nodes that carry the UID in a node sequence.
At(nodes, uid) == { i \in 1..Len(nodes) : nodes[i].elem.uid = uid }

\* C6: in every reachable state of a hashring the node sequence is strictly
\* ascending by hashkey (sorted, no two nodes with the same UID), and every
\* node's hashkey is the UID of its resource.
RingOrder ==
    /\ \A i \in 1..Len(ring) : ring[i].hashkey = ring[i].elem.uid
    /\ \A i \in 1..(Len(ring) - 1) : ring[i].hashkey < ring[i + 1].hashkey

\* C6 witness: a resource was just inserted in front of two others.
RingOrderWitness ==
    /\ last.op \in {"Add", "AddOrUpdate"}
    /\ Len(ring) >= 3
    /\ ring[1].elem.uid = last.uid
    /\ ring[1].lastUpdate > ring[2].lastUpdate

\* C7 (as claimed): prune removes exactly the nodes with
\* now - last_update > expiry(r), leaves every other node in the ring, and
\* returns each removed resource exactly once.
PruneExact ==
    [][last'.op = "Prune" =>
         /\ \A i \in 1..Len(ring) :
                Expired(ring[i], now) <=> At(ring', ring[i].elem.uid) = {}
         /\ \A j \in 1..Len(ring') : \E i \in 1..Len(ring) : ring'[j] = ring[i]
         /\ \A i \in 1..Len(ring) :
                At(ring', ring[i].elem.uid) = {} =>
                    Cardinality({ k \in 1..Len(last'.pruned) :
                                    last'.pruned[k] = ring[i].elem }) = 1
         /\ Len(last'.pruned) = Len(ring) - Len(ring')]_vars

\* C9: add_or_update(r) inserts r and returns ResourceIsNew when the UID is
\* absent; keeps the stored element, refreshes its timestamp and returns
\* ResourceUnchanged when the UID is present with the same OID; replaces the
\* element in place (same length, same position, new OID) and returns
\* ResourceChanged when the OID differs; in each case provided the resource
\* then stored is not failing its tests.  Every other node is left alone.
AddOrUpdateCases ==
    [][last'.op = "AddOrUpdate" =>
         LET uid == last'.uid
             was == At(ring, uid)
             is == At(ring', uid)
         IN /\ Cardinality(is) = 1
            /\ \A j \in is :
                  LET e == ring'[j].elem
                      notFailing == e.state # StateDysfunctional /\ e.speed # SpeedRejected
                  IN /\ ring'[j].lastUpdate = now
                     /\ e.oid = last'.oid
                     /\ was = {} =>
                           /\ Len(ring') = Len(ring) + 1
                           /\ notFailing => last'.event = ResourceIsNew
                     /\ \A i \in was :
                           /\ i = j
                           /\ Len(ring') = Len(ring)
                           /\ ring[i].elem.oid = last'.oid =>
                                 /\ e = ring[i].elem
                                 /\ notFailing => last'.event = ResourceUnchanged
                           /\ ring[i].elem.oid # last'.oid =>
                                 (notFailing => last'.event = ResourceChanged)
            /\ \A i \in 1..Len(ring) :
                  ring[i].elem.uid # uid =>
                      \E j \in 1..Len(ring') : ring'[j] = ring[i]]_vars

\* C9 witness: an OID change was stored in place, between two other nodes.
AddOrUpdateWitness ==
    /\ last.op = "AddOrUpdate"
    /\ last.event = ResourceChanged
    /\ Len(ring) = 3
    /\ ring[2].elem.oid = last.oid
    /\ ring[2].lastUpdate > ring[1].lastUpdate

\* C10 (as claimed): whenever add_or_update(r) has returned and the resource
\* then stored under r's UID is Dysfunctional or Rejected, the event is
\* ResourceIsGone, also when r was newly inserted.
GoneWhenFailing ==
    last.op = "AddOrUpdate" =>
        \A j \in At(ring, last.uid) :
            (ring[j].elem.state = StateDysfunctional \/ ring[j].elem.speed = SpeedRejected)
                => last.event = ResourceIsGone

\* C10 (amended): when r's UID was in the ring before the call and the
\* resource then stored under it is Dysfunctional or Rejected, the event is
\* ResourceIsGone, whether the OID changed or not; when r's UID was absent
\* the event is ResourceIsNew whatever r's test result.
GoneWhenFailingAndPresent ==
    [][last'.op = "AddOrUpdate" =>
         \A j \in At(ring', last'.uid) :
            /\ (/\ At(ring, last'.uid) # {}
                /\ (ring'[j].elem.state = StateDysfunctional
                      \/ ring'[j].elem.speed = SpeedRejected))
                  => last'.event = ResourceIsGone
            /\ At(ring, last'.uid) = {} => last'.event = ResourceIsNew]_vars

\* C10 witness: an update of a present resource returned ResourceIsGone
\* because the stored resource is Rejected, though functional.
GoneWhenFailingWitness ==
    /\ last.op = "AddOrUpdate"
    /\ last.event = ResourceIsGone
    /\ \E j \in At(ring, last.uid) :
          ring[j].elem.state = StateFunctional /\ ring[j].elem.speed = SpeedRejected

\* --------------------------------------------------- backend properties
\* The resources stored in a partition.
StoredIn(name) == { partitions[name][i].elem : i \in 1..Len(partitions[name]) }

\* C1 (as claimed): any two stored resources that share a relation
\* identifier and neither of which declares a distributor are stored in the
\* same partition.
CoLocation ==
    \A p, q \in PartNames :
        \A a \in StoredIn(p), b \in StoredIn(q) :
            (a.dist = "" /\ b.dist = "" /\ Range(a.rels) \cap Range(b.rels) # {})
                => p = q

\* C2 (as claimed): a diff a stream handler has received from its channel
\* is about a resource of the partition of the handler's request origin; for
\* a pruned resource that is the partition it was pruned from.
DiffToOwner ==
    \A c \in Conns :
        conns[c].held # <<>> => conns[c].held[1].owner = conns[c].origin

\* C3 (as claimed): a resource that declares the distributor "none" is in
\* no partition of a real distributor, in neither list of get(dist, type),
\* and in no diff a subscriber of a real distributor has received.
NoneStaysInNone ==
    \A d \in Dists :
        /\ \A r \in StoredIn(d) : r.dist # "none"
        /\ \A r \in Range(BackendGet(partitions, d, flags).Working)
                    \cup Range(BackendGet(partitions, d, flags).Notworking) :
               r.dist # "none"
        /\ \A c \in Conns :
               (conns[c].origin = d /\ conns[c].held # <<>>)
                   => \A r \in Range(conns[c].held[1].diff.new) \cup Range(conns[c].held[1].diff.changed)
                                \cup Range(conns[c].held[1].diff.gone) : r.dist # "none"

IngestReturns == (cur # <<>>) ~> (cur = <<>> \/ crashed)

\* C8 (as claimed): when BackendResources.Prune propagates a resource it
\* pruned from partition P, the resource is no longer in P's ring and the
\* Gone diff that carries it goes to the channels registered for P.
PrunedGoneToOwner ==
    [][(cur = <<>> /\ todo # <<>> /\ todo' = Tail(todo)) =>
          LET h == Head(todo)
          IN /\ At(partitions[h.owner], h.r.uid) = {}
             /\ sends' = Recipients(recipients, h.owner)
             /\ sends' # <<>> =>
                   (cur'[1].r = h.r /\ cur'[1].event = ResourceIsGone)]_vars

\* C11: an add or add_or_update of a resource that declares a distributor
\* leaves the resource's UID in the partition of that name when there is
\* one and in "none" when there is none, whatever the relations and the
\* stencil say, and touches no other partition; add_or_update stores the
\* very resource there.
DeclaredOverride ==
    [][(last'.op \in {"PartAdd", "PartAddOrUpdate"} /\ last'.dist # "") =>
          LET target == IF last'.dist \in PartNames THEN last'.dist ELSE "none"
          IN /\ At(partitions'[target], last'.uid) # {}
             /\ last'.op = "PartAddOrUpdate" =>
                   \A i \in At(partitions'[target], last'.uid) :
                       partitions'[target][i].elem.oid = last'.oid
             /\ \A q \in PartNames \ {target} : partitions'[q] = partitions[q]]_vars

\* C11 witness: a resource that declares moat went to moat although its
\* relation identifier is mapped to https, where another resource is.
DeclaredOverrideWitness ==
    /\ last.op \in {"PartAdd", "PartAddOrUpdate"}
    /\ last.dist = "moat"
    /\ At(partitions["moat"], last.uid) # {}
    /\ At(partitions["https"], last.uid) = {}
    /\ partitions["https"] # <<>>

\* C12 (as claimed): a stream handler receives a diff from its channel only
\* if its own request lists the type of the resource the diff carries.
OnlyRequestedTypes ==
    \A c \in Conns : conns[c].held # <<>> => conns[c].wants

\* C13 (as claimed): when a POST adds or changes a resource of the
\* unpartitioned type, the diff goes to the channel of every registered
\* stream handler whose request lists the type.
UnpartitionedDelivered ==
    [][(ring' # ring /\ last'.op = "PostLink"
           /\ last'.event \in {ResourceIsNew, ResourceChanged}) =>
          \A c \in Conns :
              (conns[c].pc \in {"init", "loop", "write"} /\ conns[c].wants)
                  => c \in Range(sends')]_vars

\* ------------------------------------------------------ pool properties
\* C14: every string form is in at most one batch, the strings in progress
\* are those of the batches, and a dispatched submission whose string form
\* was in progress changes no batch.
OneBatchPerString ==
    /\ \A s \in (1..(MaxBatch + 1)) : Cardinality((IF s \in pool.rMap THEN {"accumulating"} ELSE {})
                             \cup { b \in pool.flights : s \in b }) <= 1
    /\ pool.inProgress = pool.rMap \cup UNION pool.flights

\* C14 witness: a submission was discarded because its string form is in a
\* batch that is being tested.
OneBatchPerStringWitness ==
    /\ last.op = "Dispatch"
    /\ last.str \notin pool.rMap
    /\ \E b \in pool.flights : last.str \in b
    /\ pool.rMap # {}

\* C15: the timer is armed when the first resource enters an empty batch; a
\* batch that reaches the capacity is handed to a test run at once and the
\* timer disarmed; the expiry of the timer hands the batch to a test run; and
\* every resource accepted into a batch leaves it for a test run unless the
\* pool is stopped.
AcceptedIsFlushed ==
    /\ [][(last'.op = "Dispatch" /\ pool'.inProgress # pool.inProgress) =>
            LET batch == pool.rMap \cup {last'.str}
            IN IF Cardinality(batch) = MaxBatch
               THEN /\ pool'.rMap = {}
                    /\ batch \in pool'.flights
                    /\ ~pool'.armed
               ELSE /\ pool'.rMap = batch
                    /\ pool'.armed]_vars
    /\ [][(last'.op = "Tick" /\ pool' # pool) =>
            /\ pool'.rMap = {}
            /\ pool.rMap \in pool'.flights]_vars
    /\ \A s \in (1..(MaxBatch + 1)) :
           (s \in pool.rMap) ~> (s \notin pool.rMap \/ pool.stopped)

\* C15 witness: the expiry of the timer has flushed a batch below capacity
\* while the pool runs.
AcceptedIsFlushedWitness ==
    /\ last.op = "Tick"
    /\ ~pool.stopped
    /\ \E b \in pool.flights : b # {} /\ Cardinality(b) < MaxBatch

\* C16: a submission does not block for ever: every call of the function of
\* GetTestFunc that has begun comes to an end, taken by the dispatcher or
\* dropped.
SubmitReturns ==
    \A s \in (1..(MaxBatch + 1)) : (s \in pool.waiting) ~> (s \notin pool.waiting)

\* C17: the processing of an entry of a bandwidth response completes, and
\* the speed is Untested with the ratio cleared if the entry has an error or
\* is functional with ratio 0, else Rejected if the ratio is below the
\* threshold and Accepted if not, with the entry's ratio stored.
SpeedFromEntry ==
    last.op = "Onbasca" =>
        /\ ~last.result.panic
        /\ IF last.entry.Error # "" \/ (last.entry.Functional /\ last.entry.Ratio = <<0>>)
           THEN /\ last.result.Speed = SpeedUntested
                /\ last.result.Ratio = <<>>
           ELSE /\ last.result.Ratio = last.entry.Ratio
                /\ last.result.Speed =
                       IF last.entry.Ratio # <<>> /\ last.entry.Ratio[1] < last.threshold
                       THEN SpeedRejected ELSE SpeedAccepted

\* C18: a resource with no declared distributor and no matching relation
\* entry is put in the partition named by the stencil interval that contains
\* its UID modulo (upper end + 1).
StencilByModulo ==
    [][(/\ last'.op \in {"PartAdd", "PartAddOrUpdate"}
        /\ last'.dist = ""
        /\ RelationMatch(DOMAIN partitions, relations, last'.rels, "") = "") =>
            last'.name = FindByValue(buildStencil,
                                     last'.uid % (GetUpperEnd(buildStencil) + 1))]_vars

\* C19: the intervals of a stencil built from proportions are consecutive
\* from 0, in lexicographic order of their names, each as wide as its weight;
\* every number from 0 to the upper end is in exactly one interval, and as
\* many numbers are found in a partition's interval as its weight says (none
\* for weight 0).
StencilLayout ==
    last.op = "buildStencil" =>
        LET s == last.stencil
            w == last.proportions
            rank(k) == CHOOSE i \in 1..Len(StencilKeys) : StencilKeys[i] = k
            numbers == 0..GetUpperEnd(s)
        IN /\ { s[i].Name : i \in 1..Len(s) } = DOMAIN w
           /\ \A i \in 1..Len(s) :
                 /\ s[i].Begin = IF i = 1 THEN 0 ELSE s[i - 1].End + 1
                 /\ s[i].End - s[i].Begin + 1 = w[s[i].Name]
                 /\ i > 1 => rank(s[i - 1].Name) < rank(s[i].Name)
           /\ \A n \in numbers :
                 Cardinality({ i \in 1..Len(s) : Contains(s[i], n) }) = 1
           /\ \A p \in DOMAIN w :
                 Cardinality({ n \in numbers : FindByValue(s, n) = p }) = w[p]

\* C20: for a vanilla bridge, a transport and a link alike, another address
\* gives another OID and the same UID.
AddressChangesOidOnly ==
    (last.op = "Readdress" /\ last.address # last.r.Address) =>
        /\ last.oid[1] # last.oid[2]
        /\ last.uid[1] = last.uid[2]

\* C21: Get puts every resource of the distributor's partition in exactly one
\* of Working and Notworking, and in Working exactly when (OnlyFunctional is
\* off or its state is Functional) and (UseBandwidthRatio is off or its speed
\* is not Rejected).
GetSplitsByGates ==
    [][(last'.op = "Get" /\ last' # last /\ last'.distName \in PartNames) =>
          LET all == partitions[last'.distName]
              working == last'.state.Working
              notworking == last'.state.Notworking
          IN /\ Len(working) + Len(notworking) = Len(all)
             /\ Range(working) \cap Range(notworking) = {}
             /\ \A i \in 1..Len(all) :
                   LET r == all[i].elem
                   IN IF /\ (~flags.OnlyFunctional \/ r.state = StateFunctional)
                         /\ (~flags.UseBandwidthRatio \/ r.speed # SpeedRejected)
                      THEN r \in Range(working)
                      ELSE r \in Range(notworking)]_vars

\* C21 witness: with a gate on, a Get has put a resource in each list.
GetSplitsByGatesWitness ==
    /\ last.op = "Get"
    /\ flags.OnlyFunctional \/ flags.UseBandwidthRatio
    /\ last.state.Working # <<>>
    /\ last.state.Notworking # <<>>

\* C22: after a recomputation of the gates OnlyFunctional is on exactly when
\* at least half of all resources are Functional, and UseBandwidthRatio is on
\* exactly when at least half of all resources have the speed Accepted,
\* whatever the resources, none at all included.
GatesByHalf ==
    [][(last'.op = "calcTestedResources" /\ (last' # last \/ flags' # flags)) =>
          LET all == UNION { StoredIn(name) : name \in PartNames }
              half(S) == 2 * Cardinality(S) >= Cardinality(all)
          IN /\ flags'.OnlyFunctional = half({ r \in all : r.state = StateFunctional })
             /\ flags'.UseBandwidthRatio = half({ r \in all : r.speed = SpeedAccepted })]_vars

\* C23: GetManyFiltered goes through at most as many positions as the ring
\* has nodes, and returns at most num resources, all of which satisfy the
\* filter, in the order of the ring from the index of k on, none of them
\* twice.
FilteredOnePass ==
    (last.op = "GetManyFiltered" /\ ~last.got.err) =>
        LET got == last.got.resources
            i == getIndex(ring, last.k).i
            place(r) == (CHOOSE p \in 1..Len(ring) : ring[p].elem = r) - 1
            ahead(r) == (place(r) - i + Len(ring)) % Len(ring)
        IN /\ last.got.visited <= Len(ring)
           /\ Len(got) <= last.num
           /\ \A j \in 1..Len(got) : got[j].uid \in last.pass
           /\ \A j \in 1..(Len(got) - 1) : ahead(got[j]) < ahead(got[j + 1])

AddTwiceKeepsOne ==
    [][(last'.op = "Add" /\ At(ring, last'.uid) # {}) =>
          /\ last'.err
          /\ Len(ring') = Len(ring)
          /\ Cardinality(At(ring', last'.uid)) = 1
          /\ \A i \in 1..Len(ring) :
                /\ ring'[i].elem = ring[i].elem
                /\ ring'[i].hashkey = ring[i].hashkey
                /\ ring'[i].lastUpdate =
                       IF i \in At(ring, last'.uid) THEN now ELSE ring[i].lastUpdate]_vars

\* C25 witness: an Add, at a later time, of another version of a resource the
\* ring holds.
AddTwiceKeepsOneWitness ==
    /\ last.op = "Add" /\ last.err
    /\ \E i \in At(ring, last.uid) :
          /\ ring[i].elem.oid # last.oid
          /\ ring[i].lastUpdate = now
          /\ now > 0

\* C26: a restart from the store last saved (the step that leaves the store
\* as it is) restores the relations, and every partition holds the resources
\* of the same UIDs as before.
RoundTrip ==
    [][(store' = store /\ store.partitioned # <<>>) =>
          /\ relations' = relations
          /\ \A name \in PartNames :
                { partitions'[name][i].elem.uid : i \in 1..Len(partitions'[name]) }
                    = { partitions[name][i].elem.uid : i \in 1..Len(partitions[name]) }]_vars

BlockedByLists ==
    last.op = "blockedIn" =>
        \A c \in {"aa", "ee"} :
            LET hasAllowList == \E p \in last.allowFile : p[2] = c
            IN c \in last.result <=>
                  \/ hasAllowList /\ <<last.fingerprint, c>> \notin last.allowFile
                  \/ ~hasAllowList /\ <<last.fingerprint, c>> \in last.blockFile

BlockedByListsWitness ==
    /\ last.op = "blockedIn"
    /\ <<last.fingerprint, "ee">> \in last.blockFile
    /\ <<last.fingerprint, "ee">> \in last.allowFile
    /\ "ee" \notin last.result
    /\ "aa" \in last.result
    /\ \E fp \in 1..MaxFp : fp # last.fingerprint /\ <<fp, "aa">> \in last.allowFile

\* C29: a channel that its handler has closed is no longer registered with
\* its distributor, and propagateUpdate never has a diff to send on a closed
\* channel.
UnregisteredBeforeClosed ==
    /\ ~crashed
    /\ \A c \in Conns :
          conns[c].pc = "closed" =>
             /\ \A i \in 1..Len(recipients[conns[c].origin].chans) :
                   recipients[conns[c].origin].chans[i] # c
             /\ \A i \in 1..Len(sends) : sends[i] # c

\* C30: no UID is stored in two partitions of the partitioned hashring.
OnePartitionPerUid ==
    \A p, q \in PartNames :
        \A i \in 1..Len(partitions[p]), j \in 1..Len(partitions[q]) :
            partitions[p][i].elem.uid = partitions[q][j].elem.uid => p = q

\* C31: a subscriber receives the incremental diffs in the order of the
\* mutations.  The goroutines add versions of one resource, which nothing
\* removes: the mutation that made it New precedes every mutation that made
\* it Changed, so no client reads a Changed diff before a New diff.
DiffsInOrder ==
    \A c \in Conns :
        \A i, j \in 1..Len(conns[c].out) :
            (i < j /\ ~conns[c].out[i].full /\ conns[c].out[i].changed)
                => ~(~conns[c].out[j].full /\ conns[c].out[j].new)

\* C32: the last ingest of a resource returned ResourceIsGone; the stored
\* resource has since passed its tests; the next ingest of the resource with
\* the OID of the stored one returns ResourceIsNew or ResourceChanged, which
\* BackendResources.Add propagates.
BackAfterGone ==
    [][(/\ last.op = "AddOrUpdate" /\ last.event = ResourceIsGone
        /\ last'.op = "AddOrUpdate" /\ last'.uid = last.uid /\ last' # last
        /\ \E i \in At(ring, last.uid) :
              ring[i].elem.oid = last'.oid /\ IsPassing(ring[i].elem))
          => last'.event \in {ResourceIsNew, ResourceChanged}]_vars

\* C33: while a goroutine writes the relations table (it is in
\* addRelationIdentifiers), no other goroutine reads it (in getPartitionName,
\* of AddOrUpdate or of propagateUpdate) or writes it.
RelationsExclusive ==
    \A i, j \in 1..Len(todo) :
        (i # j /\ todo[i].at = "addRelationIdentifiers")
            => todo[j].at \notin {"getPartitionName", "addRelationIdentifiers",
                                  "propagateUpdate"}

\* C34: a subscriber whose request lists the type has sent its initial
\* snapshot, and the partition of its request origin holds the resource: the
\* resource was in the snapshot or in a New diff the subscriber has read, or
\* the diff is still on its way (a goroutine has yet to enter
\* propagateUpdate, or has yet to send on the subscriber's channel).
NothingLost ==
    \A c \in Conns :
        (/\ conns[c].pc = "loop" /\ conns[c].wants
         /\ At(partitions[conns[c].origin], 1) # {})
            => \/ \E k \in 1..Len(conns[c].out) : conns[c].out[k].new
               \/ todo # <<>>
               \/ \E i \in 1..Len(cur) : c \in Range(cur[i].chans)

\* C35: the partition stencil.GetPartitionName returns for a resource is the
\* one its UID alone yields: the interval of the first value of the stream
\* seeded with the UID.
StencilOfUidAlone ==
    last.op = "Intn" =>
        last.name = StencilGetPartitionName(buildStencil, [uid |-> last.uid], intn)

\* C36: a request for the resources of distributor D is answered only when
\* it carries the bearer token configured for D; with another bearer token,
\* the token of another distributor included, its status is 401 and it is
\* given no resources.
TokenOfOrigin ==
    (last.op = "resourcesHandler" /\ last.tokenLine # "" /\ last.tokenLine[1] = "Bearer")
        => IF last.tokenLine[2] = "t-" \o last.origin
           THEN last.status = 200
           ELSE last.status = 401 /\ last.body = <<>>

\* C37: when a test run is through, its requests failed or not, every string
\* of its batch has left the strings in progress, and alreadyInProgress
\* accepts each of them again.
FlushClears ==
    [][last'.op = "Done" =>
        /\ last'.batch \in pool.flights
        /\ pool'.inProgress = pool.inProgress \ last'.batch
        /\ \A s \in last'.batch :
               /\ s \notin pool'.inProgress
               /\ ~alreadyInProgress(pool'.inProgress, s).found]_vars

\* C37 witness: a test run whose requests failed is through while one of its
\* resources is submitted again.
FlushClearsWitness ==
    /\ last.op = "Done"
    /\ last.err
    /\ \E s \in last.batch : s \in pool.waiting /\ s \notin pool.inProgress

\* C38: a cycle of which an input could not be loaded leaves the process
\* running and every resource that was in memory where it was.
FailedLoadGoesOn ==
    [][(last'.op = "reloadBridgeDescriptors" /\ last'.failed) =>
        /\ ~crashed'
        /\ \A name \in PartNames :
               { n.elem.uid : n \in Range(partitions[name]) }
                   \subseteq { n.elem.uid : n \in Range(partitions'[name]) }]_vars

\* C40: after a cycle, every bridge that the cycle ingested is in the ring
\* with the countries that the lists of the cycle yield for its fingerprint.
BlockedInFollowsLists ==
    (last.op = "reloadBridgeDescriptors" /\ ~crashed /\ last.lists # <<>>) =>
        \A fp \in last.bridges :
            \E name \in PartNames : \E n \in Range(partitions[name]) :
                /\ n.elem.uid = fp
                /\ n.elem.blockedIn = blockedIn(last.lists[1], fp).result

====
